---- MODULE Spec2Model ----
(***************************************************************************)
(* DoIP / UDS protocol layer of the ECU coding tool.                       *)
(*                                                                         *)
(*   backend/doip_protocol.py     DoIPConnection                           *)
(*   backend/server.py            ENETConnection                           *)
(*   backend/g01_x3_b48_module.py BMWSeedToKey, G01ECUManager              *)
(*                                                                         *)
(* Bytes are sequences of naturals 0..255.  A Python value is a record     *)
(* tagged by its type in field t.  Every method is one action: the socket  *)
(* calls it makes are answered by the environment (the inputs bound by \E) *)
(* and every exchange it makes with the socket is kept in call.exch.       *)
(***************************************************************************)
EXTENDS Integers, Sequences, FiniteSets, TLC

VARIABLES
    dSocket,      \* DoIPConnection.socket: "None", "open", "unconnected", "closed"
    dConnected,   \* DoIPConnection.connected
    dActivated,   \* history: routing activation succeeded on the socket self.socket names
    eSocket,      \* ENETConnection.socket, same values
    eConnected,   \* ENETConnection.connected
    call,         \* the last completed call: operation, arguments, what the
                  \* environment answered, what was written, what was returned
    task,         \* the coroutines running ENETConnection.send_uds_request on the
                  \* one global connection: where each stands, what it asked, what it got
    wire,         \* the responses waiting in the receive buffer of ENETConnection.socket,
                  \* oldest first, each with the coroutine whose request it answers
    g01_manager   \* server.py: the global g01_manager is a G01ECUManager (TRUE) or None

vars == <<dSocket, dConnected, dActivated, eSocket, eConnected, call, task, wire, g01_manager>>

----------------------------------------------------------------------------
(* Bounds of the model *)

\* coroutines sharing the global ENETConnection: 1..MaxTasks
MaxTasks == 2

\* security levels passed to the security-access operations: 0..MaxLevel
MaxLevel == 4
\* longest UDS request handed to send_diagnostic_request by a direct caller
MaxUdsLen == 2

----------------------------------------------------------------------------
(* Python values *)

None == [t |-> "None"]
Bytes(s) == [t |-> "bytes", v |-> s]
Bool(b) == [t |-> "bool", v |-> b]

\* bool(x) for the values above
Truthy(x) ==
    CASE x.t = "None" -> FALSE
      [] x.t = "bytes" -> Len(x.v) > 0
      [] x.t = "bool" -> x.v

\* s[a:b] for 0 <= a <= b
Slice(s, a, b) ==
    LET hi == IF b < Len(s) THEN b ELSE Len(s)
    IN  IF a >= hi THEN <<>> ELSE SubSeq(s, a + 1, hi)

\* s[a:]
SliceFrom(s, a) == Slice(s, a, Len(s))

\* UnpackH reading the two bytes low byte first
UnpackHLittleEndian(s) == s[1] + s[2] * 256

\* struct.unpack('>H', two bytes)[0]
UnpackH(s) == s[1] * 256 + s[2]

\* one field of a big-endian struct format
FieldOk(c, v) ==
    CASE c = "B" -> v \in 0..255
      [] c = "H" -> v \in 0..65535
      [] c = "I" -> v >= 0

FieldBytes(c, v) ==
    CASE c = "B" -> <<v>>
      [] c = "H" -> <<v \div 256, v % 256>>
      [] c = "I" -> <<v \div 16777216, (v \div 65536) % 256, (v \div 256) % 256, v % 256>>

RECURSIVE PackFields(_, _)
PackFields(fmt, vals) ==
    IF fmt = <<>> THEN <<>>
    ELSE FieldBytes(Head(fmt), Head(vals)) \o PackFields(Tail(fmt), Tail(vals))

\* struct.pack('>' + fmt, *vals): struct.error when the number of values is
\* not the number of format characters, or a value does not fit its field
StructPack(fmt, vals) ==
    IF Len(fmt) # Len(vals) \/ \E i \in 1..Len(fmt) : ~FieldOk(fmt[i], vals[i])
    THEN [ok |-> FALSE, bytes |-> <<>>]
    ELSE [ok |-> TRUE, bytes |-> PackFields(fmt, vals)]

----------------------------------------------------------------------------
(* What the environment answers to one send followed by one recv *)

\* socket.recv raising (timeout, reset)
RecvError == [ok |-> FALSE, bytes |-> <<>>]
Received(b) == [ok |-> TRUE, bytes |-> b]

\* socket.send raises
SendError == [send |-> FALSE, recv |-> RecvError]
\* socket.send returns, socket.recv raises
Timeout == [send |-> TRUE, recv |-> RecvError]
\* socket.send returns, socket.recv returns b (b = <<>>: the peer closed)
Answer(b) == [send |-> TRUE, recv |-> Received(b)]

Exchanges(B) == {SendError, Timeout} \cup {Answer(b) : b \in B}

\* the record of one exchange a call made: the message handed to
\* socket.send and what the environment answered
Exchange(message, x) == [req |-> message, send |-> x.send, recv |-> x.recv]

\* the messages socket.send accepted, in order
Sent(exch) == [i \in 1..Len(SelectSeq(exch, LAMBDA e : e.send)) |->
                  SelectSeq(exch, LAMBDA e : e.send)[i].req]

\* the byte strings socket.recv returned, in order
Resps(exch) == [i \in 1..Len(SelectSeq(exch, LAMBDA e : e.send /\ e.recv.ok)) |->
                  SelectSeq(exch, LAMBDA e : e.send /\ e.recv.ok)[i].recv.bytes]

----------------------------------------------------------------------------
(* DoIPConnection *)

\* self.source_address
SourceAddress == 3584

\* header of the routing-activation request
RoutingActivationHeader == StructPack(<<"B", "B", "H", "I", "I">>, <<2, 253, 5, 7>>)

\* payload of the routing-activation request
RoutingActivationPayload == StructPack(<<"H", "B", "I">>, <<SourceAddress, 0, 0>>)

\* what send_routing_activation makes of the bytes recv returned
ParseRoutingActivationResponse(response) ==
    IF Len(response) < 8 THEN FALSE
    ELSE LET payload_type == UnpackH(Slice(response, 2, 4))
         IN  IF payload_type = 6
             THEN LET response_code == IF Len(response) > 13 THEN response[14] ELSE 0
                  IN  response_code = 16
             ELSE FALSE

\* send_routing_activation: raised is an exception leaving the method,
\* value the bool it returns, exch the exchange it made with the socket
SendRoutingActivation(x) ==
    IF ~RoutingActivationHeader.ok \/ ~RoutingActivationPayload.ok
    THEN [raised |-> TRUE, value |-> FALSE, exch |-> <<>>]
    ELSE LET packet == RoutingActivationHeader.bytes \o RoutingActivationPayload.bytes
             value == IF x.send /\ x.recv.ok
                      THEN ParseRoutingActivationResponse(x.recv.bytes)
                      ELSE FALSE
         IN  [raised |-> FALSE, value |-> value, exch |-> <<Exchange(packet, x)>>]

\* connect: a new socket replaces self.socket; every exception (the TCP
\* connect failing, or one leaving send_routing_activation) returns False
\* and leaves self.connected as it was
Connect(connected, tcp, x) ==
    IF tcp # "ok"
    THEN [socket |-> "unconnected", connected |-> connected, activated |-> FALSE,
          value |-> Bool(FALSE), exch |-> <<>>]
    ELSE LET ra == SendRoutingActivation(x)
         IN  IF ra.raised
             THEN [socket |-> "open", connected |-> connected, activated |-> FALSE,
                   value |-> Bool(FALSE), exch |-> ra.exch]
             ELSE [socket |-> "open", connected |-> ra.value, activated |-> ra.value,
                   value |-> Bool(ra.value), exch |-> ra.exch]

\* DoIPConnection.disconnect closing the socket and leaving connected as it was
DisconnectKeepsConnected(socket, connected) ==
    IF socket # "None"
    THEN [socket |-> "closed", connected |-> connected]
    ELSE [socket |-> socket, connected |-> connected]

\* disconnect
Disconnect(socket, connected) ==
    IF socket # "None"
    THEN [socket |-> "closed", connected |-> FALSE]
    ELSE [socket |-> socket, connected |-> connected]

\* the diagnostic message send_diagnostic_request builds
DiagnosticHeader(uds_data) ==
    StructPack(<<"B", "B", "H", "I">>, <<2, 253, 32769, 4 + Len(uds_data)>>)

DiagnosticAddresses(target_ecu) == StructPack(<<"H", "H">>, <<SourceAddress, target_ecu>>)

DiagnosticPacket(target_ecu, uds_data) ==
    DiagnosticHeader(uds_data).bytes \o DiagnosticAddresses(target_ecu).bytes \o uds_data

\* ParseDiagnosticResponse stripping the DoIP header only, not the addresses
ParseDiagnosticResponseHeaderOnly(response) ==
    IF Len(response) < 12 THEN None
    ELSE IF UnpackH(Slice(response, 2, 4)) # 32769 THEN None
    ELSE Bytes(SliceFrom(response, 8))

\* what send_diagnostic_request makes of the bytes recv returned
ParseDiagnosticResponse(response) ==
    IF Len(response) < 12 THEN None
    ELSE LET resp_type == UnpackH(Slice(response, 2, 4))
         IN  IF resp_type # 32769 THEN None
             ELSE Bytes(SliceFrom(response, 12))

\* SendDiagnosticRequest without the check of self.connected
SendDiagnosticRequestUnguarded(connected, target_ecu, uds_data, x) ==
    IF ~DiagnosticHeader(uds_data).ok \/ ~DiagnosticAddresses(target_ecu).ok
    THEN [raised |-> TRUE, value |-> None, exch |-> <<>>]
    ELSE [raised |-> FALSE,
          value |-> IF x.send /\ x.recv.ok THEN ParseDiagnosticResponse(x.recv.bytes)
                    ELSE None,
          exch |-> <<Exchange(DiagnosticPacket(target_ecu, uds_data), x)>>]

\* send_diagnostic_request
SendDiagnosticRequest(connected, target_ecu, uds_data, x) ==
    IF ~connected THEN [raised |-> FALSE, value |-> None, exch |-> <<>>]
    ELSE IF ~DiagnosticHeader(uds_data).ok \/ ~DiagnosticAddresses(target_ecu).ok
    THEN [raised |-> TRUE, value |-> None, exch |-> <<>>]
    ELSE LET packet == DiagnosticPacket(target_ecu, uds_data)
             value == IF x.send /\ x.recv.ok
                      THEN ParseDiagnosticResponse(x.recv.bytes)
                      ELSE None
         IN  [raised |-> FALSE, value |-> value, exch |-> <<Exchange(packet, x)>>]

\* the derived operations hand a UDS request (req) to send_diagnostic_request
\* and read its result; an exception leaving it leaves them too
Derived(connected, target_ecu, uds_request, x) ==
    LET r == SendDiagnosticRequest(connected, target_ecu, uds_request, x)
    IN  [req |-> uds_request, raised |-> r.raised, exch |-> r.exch, value |-> r.value]

\* AsciiIgnore keeping the bytes that are not ASCII
AsciiIgnoreNothing(s) == s

\* bytes.decode('ascii', errors='ignore'): the code points that remain
AsciiIgnore(s) == SelectSeq(s, LAMBDA b : b < 128)

\* the characters str.strip() removes
IsSpace(c) == c \in {9, 10, 11, 12, 13, 28, 29, 30, 31, 32}

RECURSIVE LStrip(_)
LStrip(s) == IF s # <<>> /\ IsSpace(Head(s)) THEN LStrip(Tail(s)) ELSE s

RECURSIVE RStrip(_)
RStrip(s) ==
    IF s # <<>> /\ IsSpace(s[Len(s)]) THEN RStrip(SubSeq(s, 1, Len(s) - 1)) ELSE s

Strip(s) == RStrip(LStrip(s))

Str(s) == [t |-> "str", v |-> s]

\* read_vin, after the request
ReadVinResult(response) ==
    IF ~Truthy(response) \/ Len(response.v) < 20 THEN None
    ELSE IF response.v[1] = 98 THEN Str(Strip(AsciiIgnore(Slice(response.v, 3, 20))))
    ELSE None

ReadVin(connected, x) ==
    LET r == Derived(connected, 18, <<34, 241, 144>>, x)
    IN  [r EXCEPT !.value = IF r.raised THEN None ELSE ReadVinResult(r.value)]

\* request_seed, after the request
RequestSeedResult(response) ==
    IF ~Truthy(response) \/ response.v[1] # 103 THEN None
    ELSE Bytes(Slice(response.v, 2, 6))

RequestSeed(connected, ecu_address, security_level, x) ==
    LET r == Derived(connected, ecu_address, <<39, security_level>>, x)
    IN  [r EXCEPT !.value = IF r.raised THEN None ELSE RequestSeedResult(r.value)]

\* send_key, after the request
SendKeyResult(response) ==
    IF ~Truthy(response) \/ response.v[1] # 103 THEN Bool(FALSE) ELSE Bool(TRUE)

SendKey(connected, ecu_address, security_level, key, x) ==
    LET r == Derived(connected, ecu_address, <<39, security_level + 1>> \o key, x)
    IN  [r EXCEPT !.value = IF r.raised THEN None ELSE SendKeyResult(r.value)]

\* ReadParameterResult without the comparison with 0x62
ReadParameterResultUnchecked(response) ==
    IF ~Truthy(response) THEN None ELSE Bytes(SliceFrom(response.v, 3))

\* read_parameter, after the request
ReadParameterResult(response) ==
    IF ~Truthy(response) \/ response.v[1] # 98 THEN None
    ELSE Bytes(SliceFrom(response.v, 3))

\* struct.pack('>BH', service, did) of read_parameter and write_parameter
ServiceDid(service, did) == StructPack(<<"B", "H">>, <<service, did>>)

ReadParameter(connected, ecu_address, did, x) ==
    IF ~ServiceDid(34, did).ok
    THEN [req |-> <<>>, raised |-> TRUE, exch |-> <<>>, value |-> None]
    ELSE LET r == Derived(connected, ecu_address, ServiceDid(34, did).bytes, x)
         IN  [r EXCEPT !.value = IF r.raised THEN None ELSE ReadParameterResult(r.value)]

\* WriteParameterResult without the comparison with 0x6E
WriteParameterResultAny(response) ==
    IF ~Truthy(response) THEN response ELSE Bool(TRUE)

\* write_parameter, after the request: response and response[0] == 0x6E
WriteParameterResult(response) ==
    IF ~Truthy(response) THEN response ELSE Bool(response.v[1] = 110)

WriteParameter(connected, ecu_address, did, data, x) ==
    IF ~ServiceDid(46, did).ok
    THEN [req |-> <<>>, raised |-> TRUE, exch |-> <<>>, value |-> None]
    ELSE LET r == Derived(connected, ecu_address, ServiceDid(46, did).bytes \o data, x)
         IN  [r EXCEPT !.value = IF r.raised THEN None ELSE WriteParameterResult(r.value)]

----------------------------------------------------------------------------
(* BMWSeedToKey: 32-bit words are kept as their 4 big-endian bytes *)

RECURSIVE XorBits(_, _, _)
XorBits(a, b, n) ==
    IF n = 0 THEN 0
    ELSE (((a % 2) + (b % 2)) % 2) + 2 * XorBits(a \div 2, b \div 2, n - 1)

\* a ^ b, byte by byte
XorBytes(a, b) == [i \in 1..Len(a) |-> XorBits(a[i], b[i], 8)]

\* (int(s) * c + carry) & (256^Len(s) - 1), as bytes
RECURSIVE MulAddBytes(_, _, _)
MulAddBytes(s, c, carry) ==
    IF s = <<>> THEN <<>>
    ELSE LET t == s[Len(s)] * c + carry
         IN  MulAddBytes(SubSeq(s, 1, Len(s) - 1), c, t \div 256) \o <<t % 256>>

\* calculate_key_level3: ok is FALSE when it raises ValueError
CalculateKeyLevel3(seed) ==
    IF Len(seed) # 4 THEN [ok |-> FALSE, bytes |-> <<>>]
    ELSE LET k1 == XorBytes(seed, <<0, 0, 148, 193>>)
             k2 == MulAddBytes(k1, 34661, 17185)
         IN  [ok |-> TRUE, bytes |-> <<k2[3], k2[4], k2[1], k2[2]>>]

\* calculate_key_level4
CalculateKeyLevel4(seed) ==
    IF Len(seed) # 4 THEN [ok |-> FALSE, bytes |-> <<>>]
    ELSE LET k1 == XorBytes(seed, <<0, 0, 79, 42>>)
             k2 == MulAddBytes(k1, 43981, 22136)
         IN  [ok |-> TRUE, bytes |-> XorBytes(k2, <<255, 0, 255, 0>>)]

----------------------------------------------------------------------------
(* ENETConnection *)

\* connect
EnetConnect(tcp) ==
    IF tcp = "ok"
    THEN [socket |-> "open", connected |-> TRUE, value |-> Bool(TRUE)]
    ELSE [socket |-> "unconnected", connected |-> FALSE, value |-> Bool(FALSE)]

\* disconnect
EnetDisconnect(socket, connected) ==
    IF socket # "None"
    THEN [socket |-> "closed", connected |-> FALSE]
    ELSE [socket |-> socket, connected |-> connected]

\* SendUdsRequest sending the message a second time when the first attempt
\* met a send or recv that raised
SendUdsRequestRetrying(connected, service_id, data, x) ==
    IF ~connected \/ ~StructPack(<<"B">>, <<service_id>>).ok
    THEN [raised |-> TRUE, value |-> None, exch |-> <<>>]
    ELSE LET message == StructPack(<<"B">>, <<service_id>>).bytes \o data
         IN  [raised |-> ~(x.send /\ x.recv.ok),
              value |-> IF x.send /\ x.recv.ok THEN Bytes(x.recv.bytes) ELSE None,
              exch |-> IF x.send /\ x.recv.ok THEN <<Exchange(message, x)>>
                       ELSE <<Exchange(message, x), Exchange(message, x)>>]

\* send_uds_request: it raises when not connected, when the service id does
\* not fit a byte, and when socket.send or socket.recv raises
SendUdsRequest(connected, service_id, data, x) ==
    IF ~connected \/ ~StructPack(<<"B">>, <<service_id>>).ok
    THEN [raised |-> TRUE, value |-> None, exch |-> <<>>]
    ELSE LET message == StructPack(<<"B">>, <<service_id>>).bytes \o data
         IN  [raised |-> ~(x.send /\ x.recv.ok),
              value |-> IF x.send /\ x.recv.ok THEN Bytes(x.recv.bytes) ELSE None,
              exch |-> <<Exchange(message, x)>>]

\* start_diagnostic_session
StartDiagnosticSession(connected, session_type, x) ==
    SendUdsRequest(connected, 16, StructPack(<<"B">>, <<session_type>>).bytes, x)

\* security_access_seed: the data is the four characters \x01, not byte 0x01
SecurityAccessSeed(connected, x) ==
    SendUdsRequest(connected, 39, <<92, 120, 48, 49>>, x)

\* security_access_key: the data is the four characters \x02 and the key
SecurityAccessKey(connected, key, x) ==
    SendUdsRequest(connected, 39, <<92, 120, 48, 50>> \o key, x)

----------------------------------------------------------------------------
(* G01ECUManager, on an ENETConnection *)

\* SeedAccepted without the comparison with 0x67
SeedAcceptedAlways(seed_response) == TRUE

\* unlock_ecu: the seed request is accepted
SeedAccepted(seed_response) == seed_response[1] = 103

\* unlock_ecu: the seed in the response
SeedOf(seed_response) == Slice(seed_response, 2, 6)

\* unlock_ecu: the key for the level; ok is FALSE when ValueError is raised
KeyFor(security_level, seed) ==
    IF security_level = 3 THEN CalculateKeyLevel3(seed)
    ELSE IF security_level = 4 THEN CalculateKeyLevel4(seed)
    ELSE [ok |-> FALSE, bytes |-> <<>>]

\* unlock_ecu: the key is accepted
KeyAccepted(key_response) == key_response[1] = 103

\* unlock_ecu from the key request on
UnlockSendKey(connected, security_level, key, exch, x3) ==
    IF ~StructPack(<<"B">>, <<security_level * 2>>).ok
    THEN [value |-> Bool(FALSE), exch |-> exch]
    ELSE LET s3 == SendUdsRequest(connected, 39,
                                  StructPack(<<"B">>, <<security_level * 2>>).bytes \o key, x3)
         IN  [value |-> Bool(~s3.raised /\ s3.value.v # <<>> /\ KeyAccepted(s3.value.v)),
              exch |-> exch \o s3.exch]

\* unlock_ecu from the seed request on
UnlockRequestSeed(connected, security_level, exch, x2, x3) ==
    IF ~StructPack(<<"B">>, <<security_level * 2 - 1>>).ok
    THEN [value |-> Bool(FALSE), exch |-> exch]
    ELSE LET s2 == SendUdsRequest(connected, 39,
                                  StructPack(<<"B">>, <<security_level * 2 - 1>>).bytes, x2)
         IN  IF s2.raised \/ s2.value.v = <<>> \/ ~SeedAccepted(s2.value.v)
             THEN [value |-> Bool(FALSE), exch |-> exch \o s2.exch]
             ELSE LET key == KeyFor(security_level, SeedOf(s2.value.v))
                  IN  IF ~key.ok THEN [value |-> Bool(FALSE), exch |-> exch \o s2.exch]
                      ELSE UnlockSendKey(connected, security_level, key.bytes,
                                         exch \o s2.exch, x3)

\* unlock_ecu: every exception is caught and returns False; the response to
\* the session request is not looked at
UnlockEcu(connected, security_level, x1, x2, x3) ==
    LET s1 == SendUdsRequest(connected, 16, <<3>>, x1)
    IN  IF s1.raised THEN [value |-> Bool(FALSE), exch |-> s1.exch]
        ELSE UnlockRequestSeed(connected, security_level, s1.exch, x2, x3)

\* read_parameter
G01ReadParameter(connected, did, x) ==
    IF ~StructPack(<<"H">>, <<did>>).ok THEN [value |-> None, exch |-> <<>>]
    ELSE LET r == SendUdsRequest(connected, 34, StructPack(<<"H">>, <<did>>).bytes, x)
         IN  [value |-> IF r.raised \/ r.value.v = <<>> THEN None
                        ELSE IF r.value.v[1] = 98 THEN Bytes(SliceFrom(r.value.v, 3))
                        ELSE None,
              exch |-> r.exch]

\* write_parameter
G01WriteParameter(connected, did, value, x) ==
    IF ~StructPack(<<"H">>, <<did>>).ok THEN [value |-> Bool(FALSE), exch |-> <<>>]
    ELSE LET r == SendUdsRequest(connected, 46, StructPack(<<"H">>, <<did>>).bytes \o value, x)
         IN  [value |-> Bool(~r.raised /\ r.value.v # <<>> /\ r.value.v[1] = 110),
              exch |-> r.exch]

----------------------------------------------------------------------------
(* server.py: the flash endpoint, on the global ENETConnection *)

\* apply_flash: the key it sends, sixteen characters \x00\x00\x00\x00
MockKey == <<92, 120, 48, 48, 92, 120, 48, 48, 92, 120, 48, 48, 92, 120, 48, 48>>

\* apply_flash: what the handler answers
HttpError(status_code) == [t |-> "HTTPException", status_code |-> status_code]
FlashApplied == [t |-> "dict", success |-> TRUE]

\* apply_flash from the key request on; db is whether the insert of the
\* transaction record succeeds
ApplyFlashSendKey(connected, exch, x3, db) ==
    LET s3 == SecurityAccessKey(connected, MockKey, x3)
    IN  IF s3.raised \/ db # "ok"
        THEN [raised |-> TRUE, value |-> HttpError(500), exch |-> exch \o s3.exch]
        ELSE [raised |-> FALSE, value |-> FlashApplied, exch |-> exch \o s3.exch]

\* apply_flash: no response is looked at; every exception, the 400 raised
\* for a missing connection included, is answered with status 500
ApplyFlash(connected, x1, x2, x3, db) ==
    IF ~connected THEN [raised |-> TRUE, value |-> HttpError(500), exch |-> <<>>]
    ELSE LET s1 == StartDiagnosticSession(connected, 3, x1)
         IN  IF s1.raised
             THEN [raised |-> TRUE, value |-> HttpError(500), exch |-> s1.exch]
             ELSE LET s2 == SecurityAccessSeed(connected, x2)
                  IN  IF s2.raised
                      THEN [raised |-> TRUE, value |-> HttpError(500),
                            exch |-> s1.exch \o s2.exch]
                      ELSE ApplyFlashSendKey(connected, s1.exch \o s2.exch, x3, db)

----------------------------------------------------------------------------
(* Inputs *)

Levels == 0..MaxLevel

\* ECU addresses: DME, KOMBI, BDC, and one that does not fit 16 bits
Targets == {18, 97, 241, 65536}

\* ECU addresses handed to the G01ECUManager: DME, KOMBI
Ecus == {18, 97}

\* UDS requests a direct caller hands to send_diagnostic_request
UdsRequests == UNION {[1..n -> {0, 34, 255}] : n \in 0..MaxUdsLen}

Dids == {61840, 12288}
Keys == {<<>>, <<1, 2, 3, 4>>}
Values == {<<>>, <<97>>}

\* the first n bytes of a routing-activation response of type ptype whose
\* byte 13 is code
RAReply(ptype, n, code) ==
    Slice(<<2, 253, ptype \div 256, ptype % 256, 0, 0, 0, 9,
            14, 0, 0, 16, 16 - code, code, 0, 0, 0>>, 0, n)

RAReplies == {RAReply(ptype, n, code) : ptype \in {6, 32769}, n \in {0, 8, 13, 14, 17},
                                         code \in {0, 16}}

\* the first n bytes of a diagnostic message of type ptype from ECU 0x12
\* with the length field set to declared
DiagReply(ptype, declared, uds, n) ==
    Slice(StructPack(<<"B", "B", "H", "I">>, <<2, 253, ptype, declared>>).bytes
          \o <<0, 18, 14, 0>> \o uds, 0, n)

UdsPayloads == {<<>>, <<98, 241, 144, 65>>, <<127, 34, 49>>, <<110, 48, 0>>}

DiagReplies ==
    {DiagReply(ptype, Len(uds) + d, uds, n) :
        ptype \in {32769, 32770, 6}, d \in {0, 4, 5}, uds \in UdsPayloads,
        n \in {7, 11, 12, 16}}

\* raw UDS responses read by ENETConnection
UdsResponses ==
    { <<>>,
      <<80, 3>>,
      <<127, 16, 34>>,
      <<127, 39, 53>>,
      <<127, 34, 49>>,
      <<103, 5, 18, 52, 86, 120>>,
      <<103, 7, 255, 255, 255, 255, 0>>,
      <<103, 5, 18, 52, 86>>,
      <<103, 6>>,
      <<98, 241, 144, 65, 66, 67>>,
      <<110, 48, 0>> }

----------------------------------------------------------------------------
(* Actions: DoIPConnection *)

enetVars == <<eSocket, eConnected>>
doipVars == <<dSocket, dConnected, dActivated>>
taskVars == <<task, wire>>

\* the coroutines that may call send_uds_request on the global connection
Tasks == 1..MaxTasks

\* a coroutine that is not inside send_uds_request
IdleTask == [pc |-> "idle", request |-> <<>>, raised |-> FALSE, value |-> None]

\* no call is in progress
Idle == [op |-> "idle", exch |-> <<>>, raised |-> FALSE, value |-> None]

\* the caller has taken the result of its call and may make the next one
Return ==
    /\ call # Idle
    /\ call' = Idle
    /\ UNCHANGED <<doipVars, enetVars, taskVars, g01_manager>>

CallConnect ==
    /\ call = Idle
    /\ \E tcp \in {"ok", "fail"}, x \in Exchanges(RAReplies) :
        LET r == Connect(dConnected, tcp, x)
        IN  /\ call = Idle
            /\ dSocket' = r.socket
            /\ dConnected' = r.connected
            /\ dActivated' = r.activated
            /\ call' = [op |-> "connect", tcp |-> tcp, gateway |-> x,
                        exch |-> r.exch, raised |-> FALSE, value |-> r.value]
            /\ UNCHANGED <<enetVars, taskVars, g01_manager>>

CallDisconnect ==
    LET r == Disconnect(dSocket, dConnected)
    IN  /\ call = Idle
        /\ dSocket' = r.socket
        /\ dConnected' = r.connected
        /\ dActivated' = (dActivated /\ r.socket = dSocket)
        /\ call' = [op |-> "disconnect", exch |-> <<>>, raised |-> FALSE, value |-> None]
        /\ UNCHANGED <<enetVars, taskVars, g01_manager>>

\* a call that goes through send_diagnostic_request: activated is whether
\* routing activation had succeeded on the socket when the call was made
DoipCall(op, args, r) ==
    /\ call = Idle
    /\ call' = [op |-> op, args |-> args, activated |-> dActivated, req |-> r.req,
                exch |-> r.exch, raised |-> r.raised, value |-> r.value]
    /\ UNCHANGED <<doipVars, enetVars, taskVars, g01_manager>>

CallSendDiagnosticRequest ==
    /\ call = Idle
    /\ \E target_ecu \in Targets, uds_data \in UdsRequests, x \in Exchanges(DiagReplies) :
        DoipCall("send_diagnostic_request", [ecu |-> target_ecu],
                 Derived(dConnected, target_ecu, uds_data, x))

CallReadVin ==
    /\ call = Idle
    /\ \E x \in Exchanges(DiagReplies) :
        DoipCall("read_vin", [ecu |-> 18], ReadVin(dConnected, x))

CallRequestSeed ==
    /\ call = Idle
    /\ \E ecu \in Targets, level \in Levels, x \in Exchanges(DiagReplies) :
        DoipCall("request_seed", [ecu |-> ecu, level |-> level],
                 RequestSeed(dConnected, ecu, level, x))

CallSendKey ==
    /\ call = Idle
    /\ \E ecu \in Targets, level \in Levels, key \in Keys, x \in Exchanges(DiagReplies) :
        DoipCall("send_key", [ecu |-> ecu, level |-> level, key |-> key],
                 SendKey(dConnected, ecu, level, key, x))

CallReadParameter ==
    /\ call = Idle
    /\ \E ecu \in Targets, did \in Dids, x \in Exchanges(DiagReplies) :
        DoipCall("read_parameter", [ecu |-> ecu, did |-> did],
                 ReadParameter(dConnected, ecu, did, x))

CallWriteParameter ==
    /\ call = Idle
    /\ \E ecu \in Targets, did \in Dids, data \in Values, x \in Exchanges(DiagReplies) :
        DoipCall("write_parameter", [ecu |-> ecu, did |-> did, data |-> data],
                 WriteParameter(dConnected, ecu, did, data, x))

----------------------------------------------------------------------------
(* Actions: ENETConnection and G01ECUManager *)

CallEnetConnect ==
    /\ call = Idle
    /\ \E tcp \in {"ok", "fail"} :
        LET r == EnetConnect(tcp)
        IN  /\ call = Idle
            /\ eSocket' = r.socket
            /\ eConnected' = r.connected
            /\ call' = [op |-> "enet.connect", tcp |-> tcp, exch |-> <<>>,
                        raised |-> FALSE, value |-> r.value]
            /\ UNCHANGED <<doipVars, taskVars, g01_manager>>

CallEnetDisconnect ==
    LET r == EnetDisconnect(eSocket, eConnected)
    IN  /\ call = Idle
        /\ eSocket' = r.socket
        /\ eConnected' = r.connected
        /\ call' = [op |-> "enet.disconnect", exch |-> <<>>, raised |-> FALSE,
                    value |-> None]
        /\ UNCHANGED <<doipVars, taskVars, g01_manager>>

\* G01Call keeping the outcome of the call on the connection: a call that
\* fails marks the connection as down
G01CallMarking(op, args, r) ==
    /\ call = Idle
    /\ call' = [op |-> op, args |-> args, exch |-> r.exch, raised |-> FALSE,
                value |-> r.value]
    /\ eConnected' = (eConnected /\ r.value # Bool(FALSE))
    /\ UNCHANGED <<doipVars, eSocket, taskVars, g01_manager>>

G01Call(op, args, r) ==
    /\ call = Idle
    /\ call' = [op |-> op, args |-> args, exch |-> r.exch, raised |-> FALSE,
                value |-> r.value]
    /\ UNCHANGED <<doipVars, enetVars, taskVars, g01_manager>>

\* x1, x2 and x3 answer the session request, the seed request and the
\* key request; a run that ends early leaves the later ones unused
CallUnlockEcu ==
    /\ call = Idle
    /\ \E ecu \in Ecus, level \in Levels, x1, x2, x3 \in Exchanges(UdsResponses) :
        G01Call("unlock_ecu", [ecu |-> ecu, level |-> level],
                UnlockEcu(eConnected, level, x1, x2, x3))

CallG01ReadParameter ==
    /\ call = Idle
    /\ \E ecu \in Ecus, did \in Dids, x \in Exchanges(UdsResponses) :
        G01Call("g01.read_parameter", [ecu |-> ecu, did |-> did],
                G01ReadParameter(eConnected, did, x))

CallG01WriteParameter ==
    /\ call = Idle
    /\ \E ecu \in Ecus, did \in Dids, value \in Values, x \in Exchanges(UdsResponses) :
        G01Call("g01.write_parameter", [ecu |-> ecu, did |-> did, data |-> value],
                G01WriteParameter(eConnected, did, value, x))

\* x1, x2 and x3 answer the session request, the seed request and the
\* key request of the handler
CallApplyFlash ==
    /\ call = Idle
    /\ \E x1, x2, x3 \in Exchanges(UdsResponses), db \in {"ok", "error"} :
        LET r == ApplyFlash(eConnected, x1, x2, x3, db)
        IN  /\ call = Idle
            /\ call' = [op |-> "apply_flash", db |-> db, exch |-> r.exch,
                        raised |-> r.raised, value |-> r.value]
            /\ UNCHANGED <<doipVars, enetVars, taskVars, g01_manager>>

----------------------------------------------------------------------------
(* Actions: the framing functions of DoIPConnection on their own *)

\* the diagnostic message built for (target_ecu, uds_data), handed to the
\* response parser
FrameRoundTrip ==
    /\ call = Idle
    /\ \E target_ecu \in Targets \ {65536}, uds_data \in UdsRequests :
        /\ call = Idle
        /\ call' = [op |-> "frame_round_trip", ecu |-> target_ecu, uds |-> uds_data,
                    frame |-> DiagnosticPacket(target_ecu, uds_data),
                    parsed |-> ParseDiagnosticResponse(DiagnosticPacket(target_ecu, uds_data))]
        /\ UNCHANGED <<doipVars, enetVars, taskVars, g01_manager>>

\* received bytes handed to the two response parsers
FrameParse ==
    /\ call = Idle
    /\ \E response \in DiagReplies \cup RAReplies :
        /\ call = Idle
        /\ call' = [op |-> "frame_parse", response |-> response,
                    parsed |-> ParseDiagnosticResponse(response),
                    activation |-> ParseRoutingActivationResponse(response)]
        /\ UNCHANGED <<doipVars, enetVars, taskVars, g01_manager>>

----------------------------------------------------------------------------
(* Specifications *)

Init ==
    /\ dSocket = "None"
    /\ dConnected = FALSE
    /\ dActivated = FALSE
    /\ eSocket = "None"
    /\ eConnected = FALSE
    /\ call = Idle
    /\ task = [t \in Tasks |-> IdleTask]
    /\ wire = <<>>
    /\ g01_manager = FALSE

\* a DoIPConnection and its callers
Next ==
    \/ CallConnect
    \/ CallDisconnect
    \/ CallSendDiagnosticRequest
    \/ CallReadVin
    \/ CallRequestSeed
    \/ CallSendKey
    \/ CallReadParameter
    \/ CallWriteParameter
    \/ Return

Spec == Init /\ [][Next]_vars

\* an ENETConnection, the G01ECUManager on it, the flash endpoint, and
\* their callers
NextG01 ==
    \/ CallEnetConnect
    \/ CallEnetDisconnect
    \/ CallUnlockEcu
    \/ CallG01ReadParameter
    \/ CallG01WriteParameter
    \/ CallApplyFlash
    \/ Return

SpecG01 == Init /\ [][NextG01]_vars

\* the framing functions applied to every input of the bounded sets
NextFrame == FrameRoundTrip \/ FrameParse \/ Return

SpecFrame == Init /\ [][NextFrame]_vars

----------------------------------------------------------------------------
(* ENETConnection: the VIN read and the write, and the connect endpoint *)

\* the text DEMO_VIN_123456789
DemoVin == <<68, 69, 77, 79, 95, 86, 73, 78, 95, 49, 50, 51, 52, 53, 54, 55, 56, 57>>

\* bytes.decode('ascii'): UnicodeDecodeError on a byte above 0x7F
AsciiStrict(s) ==
    IF \E i \in 1..Len(s) : s[i] >= 128 THEN [ok |-> FALSE, chars |-> <<>>]
    ELSE [ok |-> TRUE, chars |-> s]

\* ENETConnection.read_vin: the data of the request is the eight characters
\* \xF1\x90; the first byte of the response is not looked at; every
\* exception is answered with the demo VIN
EnetReadVin(connected, x) ==
    LET r == SendUdsRequest(connected, 34, <<92, 120, 70, 49, 92, 120, 57, 48>>, x)
    IN  IF r.raised THEN [value |-> Str(DemoVin), exch |-> r.exch]
        ELSE LET vin == AsciiStrict(Slice(r.value.v, 3, 20))
             IN  [value |-> IF vin.ok THEN Str(vin.chars) ELSE Str(DemoVin),
                  exch |-> r.exch]

\* ENETConnection.write_ecu_data
WriteEcuData(connected, did, data, x) ==
    IF ~StructPack(<<"H">>, <<did>>).ok THEN [value |-> Bool(FALSE), exch |-> <<>>]
    ELSE LET r == SendUdsRequest(connected, 46, StructPack(<<"H">>, <<did>>).bytes \o data, x)
         IN  [value |-> Bool(~r.raised /\ r.value.v # <<>> /\ r.value.v[1] = 110),
              exch |-> r.exch]

\* connect_to_vehicle: what the handler answers
ConnectionResponse(success, vin) ==
    [t |-> "ConnectionResponse", success |-> success, vin |-> vin]

\* connect_to_vehicle: a new ENETConnection for type enet, and the VIN read
\* on it when the connect succeeds
ConnectToVehicle(socket, connected, manager, type, tcp, x) ==
    IF type = "enet"
    THEN LET c == EnetConnect(tcp)
         IN  IF c.connected
             THEN LET v == EnetReadVin(c.connected, x)
                  IN  [socket |-> c.socket, connected |-> c.connected, manager |-> TRUE,
                       value |-> ConnectionResponse(TRUE, v.value), exch |-> v.exch]
             ELSE [socket |-> c.socket, connected |-> c.connected, manager |-> manager,
                   value |-> ConnectionResponse(FALSE, None), exch |-> <<>>]
    ELSE [socket |-> socket, connected |-> connected, manager |-> manager,
          value |-> ConnectionResponse(type \in {"bluetooth", "wifi"}, None),
          exch |-> <<>>]

\* responses to the VIN read: first byte, DID echo, then the 17 bytes of
\* the VIN field and what follows, cut to n bytes
VinFields ==
    { <<87, 66, 65, 51, 65, 53, 67, 53, 88, 70, 80, 49, 50, 51, 52, 53, 54>>,
      <<32, 66, 65, 51, 65, 53, 67, 53, 88, 70, 80, 49, 50, 51, 52, 53, 10>>,
      <<200, 66, 65, 51, 65, 53, 67, 53, 255, 70, 80, 49, 50, 51, 52, 53, 32>>,
      <<32, 32, 32, 32, 32, 32, 32, 32, 32, 32, 32, 32, 32, 32, 32, 32, 32>> }

VinResponse(first, field, n) == Slice(<<first, 241, 144>> \o field \o <<55, 56>>, 0, n)

VinResponses ==
    {VinResponse(first, field, n) : first \in {98, 127, 0}, field \in VinFields,
                                    n \in {3, 19, 20, 22}}

\* the diagnostic messages that carry them
VinReplies == {DiagReply(32769, 4 + Len(uds), uds, 12 + Len(uds)) : uds \in VinResponses}

CallEnetReadVin ==
    /\ call = Idle
    /\ \E x \in Exchanges(UdsResponses \cup VinResponses) :
        /\ call = Idle
        /\ call' = [op |-> "enet.read_vin", exch |-> EnetReadVin(eConnected, x).exch,
                    raised |-> FALSE, value |-> EnetReadVin(eConnected, x).value]
        /\ UNCHANGED <<doipVars, enetVars, taskVars, g01_manager>>

CallWriteEcuData ==
    /\ call = Idle
    /\ \E did \in Dids, data \in Values, x \in Exchanges(UdsResponses) :
        /\ call = Idle
        /\ call' = [op |-> "enet.write_ecu_data", args |-> [did |-> did, data |-> data],
                    exch |-> WriteEcuData(eConnected, did, data, x).exch,
                    raised |-> FALSE,
                    value |-> WriteEcuData(eConnected, did, data, x).value]
        /\ UNCHANGED <<doipVars, enetVars, taskVars, g01_manager>>

CallConnectToVehicle ==
    /\ call = Idle
    /\ \E type \in {"enet", "bluetooth", "wifi", "usb"}, tcp \in {"ok", "fail"},
       x \in Exchanges(UdsResponses \cup VinResponses) :
        LET r == ConnectToVehicle(eSocket, eConnected, g01_manager, type, tcp, x)
        IN  /\ call = Idle
            /\ eSocket' = r.socket
            /\ eConnected' = r.connected
            /\ g01_manager' = r.manager
            /\ call' = [op |-> "connect_to_vehicle", type |-> type, tcp |-> tcp,
                        exch |-> r.exch, raised |-> FALSE, value |-> r.value]
            /\ UNCHANGED <<doipVars, taskVars>>

\* the VIN read of DoIPConnection answered with VIN responses
CallReadVinAnswered ==
    /\ call = Idle
    /\ \E x \in Exchanges(VinReplies) :
        DoipCall("read_vin", [ecu |-> 18], ReadVin(dConnected, x))

----------------------------------------------------------------------------
(* The read and write operations on connections that are up *)

\* a DoIPConnection on which routing activation has succeeded
InitActivated ==
    /\ dSocket = "open"
    /\ dConnected = TRUE
    /\ dActivated = TRUE
    /\ eSocket = "None"
    /\ eConnected = FALSE
    /\ call = Idle
    /\ task = [t \in Tasks |-> IdleTask]
    /\ wire = <<>>
    /\ g01_manager = FALSE

NextOps ==
    \/ CallDisconnect
    \/ CallSendDiagnosticRequest
    \/ CallReadVin
    \/ CallReadVinAnswered
    \/ CallReadParameter
    \/ CallWriteParameter
    \/ CallEnetConnect
    \/ CallEnetDisconnect
    \/ CallConnectToVehicle
    \/ CallEnetReadVin
    \/ CallWriteEcuData
    \/ CallG01ReadParameter
    \/ CallG01WriteParameter
    \/ Return

SpecOps == InitActivated /\ [][NextOps]_vars


----------------------------------------------------------------------------
(* CAFDParser._parse_cafd_binary *)

\* the bytes skipped at the start of a CAFD blob
HeaderLen == 32

\* one character of bytes.hex(): 0-9, a-f
HexDigit(n) == IF n < 10 THEN 48 + n ELSE 87 + n

\* bytes.hex()
RECURSIVE Hex(_)
Hex(b) ==
    IF b = <<>> THEN <<>>
    ELSE <<HexDigit(Head(b) \div 16), HexDigit(Head(b) % 16)>> \o Hex(Tail(b))

\* one character of format spec X: 0-9, A-F
HexDigitUpper(n) == IF n < 10 THEN 48 + n ELSE 55 + n

\* f"param_{param_id:04X}"
ParamKey(param_id) ==
    <<112, 97, 114, 97, 109, 95>> \o
    <<HexDigitUpper(param_id \div 4096), HexDigitUpper((param_id \div 256) % 16),
      HexDigitUpper((param_id \div 16) % 16), HexDigitUpper(param_id % 16)>>

\* bytes.decode('utf-8', errors='ignore'), the code points: ASCII, two-byte
\* sequences, and the bytes that start nothing (0x80..0xC1, 0xF5..0xFF) or
\* a two-byte sequence that is not continued, which are dropped.  Lead
\* bytes of longer sequences (0xE0..0xF4) are outside this definition
RECURSIVE Utf8Ignore(_)
Utf8Ignore(s) ==
    IF s = <<>> THEN <<>>
    ELSE CASE s[1] < 128 -> <<s[1]>> \o Utf8Ignore(Tail(s))
           [] s[1] \in 128..193 \cup 245..255 -> Utf8Ignore(Tail(s))
           [] s[1] \in 194..223 ->
                IF Len(s) >= 2 /\ s[2] \in 128..191
                THEN <<(s[1] - 192) * 64 + (s[2] - 128)>> \o Utf8Ignore(Tail(Tail(s)))
                ELSE Utf8Ignore(Tail(s))

\* str.strip('\x00')
RECURSIVE StripNul(_)
StripNul(s) ==
    IF s # <<>> /\ s[1] = 0 THEN StripNul(Tail(s))
    ELSE IF s # <<>> /\ s[Len(s)] = 0 THEN StripNul(SubSeq(s, 1, Len(s) - 1))
    ELSE s

\* a dict as the sequence of its items in insertion order; d[key] = value
\* replaces the value of a key that is there and appends one that is not
DictSet(d, key, value) ==
    IF \E i \in 1..Len(d) : d[i].key = key
    THEN [i \in 1..Len(d) |-> IF d[i].key = key THEN [key |-> key, value |-> value] ELSE d[i]]
    ELSE Append(d, [key |-> key, value |-> value])

\* the value stored for one parameter block
ParamEntry(param_id, param_len, param_data) ==
    [id |-> param_id,
     value |-> Str(StripNul(Utf8Ignore(param_data))),
     raw |-> Str(Hex(param_data)),
     length |-> param_len]

\* the while loop of _parse_cafd_binary, offset counted from 0
RECURSIVE ParseCafdLoop(_, _, _)
ParseCafdLoop(data, offset, params) ==
    IF ~(offset < Len(data) - 4) THEN params
    ELSE LET param_id == UnpackH(Slice(data, offset, offset + 2))
             param_len == UnpackH(Slice(data, offset + 2, offset + 4))
         IN  IF offset + 4 + param_len > Len(data) THEN params
             ELSE ParseCafdLoop(data, offset + 4 + param_len,
                      DictSet(params, ParamKey(param_id),
                              ParamEntry(param_id, param_len,
                                         Slice(data, offset + 4, offset + 4 + param_len))))

\* _parse_cafd_binary
ParseCafdBinary(data) == ParseCafdLoop(data, HeaderLen, <<>>)

\* most parameter blocks in a generated blob
MaxBlocks == 3

\* parameter ids of G01_CODING_PARAMS
CafdIds == {12288, 12289}

\* parameter data: empty, A, A in NUL padding, not_active, e-acute then an
\* invalid byte then A
CafdData ==
    { <<>>, <<65>>, <<0, 65, 0>>,
      <<110, 111, 116, 95, 97, 99, 116, 105, 118, 101>>,
      <<195, 169, 255, 65>> }

CafdBlocks == [id : CafdIds, data : CafdData]

\* the bytes of one complete block
BlockBytes(b) ==
    StructPack(<<"H", "H">>, <<b.id, Len(b.data)>>).bytes \o b.data

RECURSIVE BlocksBytes(_)
BlocksBytes(bs) == IF bs = <<>> THEN <<>> ELSE BlockBytes(Head(bs)) \o BlocksBytes(Tail(bs))

\* 32 header bytes: zeros, or 0xFF
CafdHeaders == {[i \in 1..HeaderLen |-> 0], [i \in 1..HeaderLen |-> 255]}

\* what follows the last complete block: nothing, part of a block header,
\* a block header that declares 5 bytes with none or one of them there
CafdTails == {<<>>, <<48>>, <<48, 1, 0>>, <<48, 1, 0, 5>>, <<48, 1, 0, 5, 66>>}

ParseCafd ==
    /\ call = Idle
    /\ \E header \in CafdHeaders, n \in 0..MaxBlocks, tail \in CafdTails :
        \E blocks \in [1..n -> CafdBlocks] :
            /\ call = Idle
            /\ call' = [op |-> "_parse_cafd_binary", header |-> header,
                        blocks |-> blocks, tail |-> tail,
                        data |-> header \o BlocksBytes(blocks) \o tail,
                        params |-> ParseCafdBinary(header \o BlocksBytes(blocks) \o tail)]
            /\ UNCHANGED <<doipVars, enetVars, taskVars, g01_manager>>

\* a blob shorter than the header
ParseCafdShort ==
    /\ call = Idle
    /\ \E n \in {0, 10, 31} :
        /\ call = Idle
        /\ call' = [op |-> "_parse_cafd_binary", header |-> [i \in 1..n |-> 0],
                    blocks |-> <<>>, tail |-> <<>>, data |-> [i \in 1..n |-> 0],
                    params |-> ParseCafdBinary([i \in 1..n |-> 0])]
        /\ UNCHANGED <<doipVars, enetVars, taskVars, g01_manager>>

NextCafd == ParseCafd \/ ParseCafdShort \/ Return

SpecCafd == Init /\ [][NextCafd]_vars


----------------------------------------------------------------------------
(* ENETConnection.send_uds_request run by several coroutines.  The handlers *)
(* of server.py are coroutines of one event loop and share the global       *)
(* enet_connection; a coroutine gives up the loop at each await, so the      *)
(* steps below are the atomic pieces of send_uds_request.                    *)

\* the requests the coroutines make: service id and data
TaskRequests == {<<34, 241, 144>>, <<46, 48, 0, 97>>, <<16, 3>>}

\* what the ECU puts on the connection for a request it has read: the
\* positive response to that request
EcuAnswer(message) == <<message[1] + 64>> \o SliceFrom(message, 1)

\* a connection on which ENETConnection.connect has succeeded
InitConnected ==
    /\ dSocket = "None"
    /\ dConnected = FALSE
    /\ dActivated = FALSE
    /\ eSocket = "open"
    /\ eConnected = TRUE
    /\ call = Idle
    /\ task = [t \in Tasks |-> IdleTask]
    /\ wire = <<>>
    /\ g01_manager = TRUE

\* the coroutine enters send_uds_request: the connected check, the message,
\* and the send handed to the executor; the ECU answers what it reads
TaskSend(t) ==
    \E service_id \in {34, 46, 16}, ok \in BOOLEAN :
        LET message == CHOOSE m \in TaskRequests : m[1] = service_id
        IN  /\ task[t].pc = "idle"
            /\ IF ~eConnected \/ ~ok \/ eSocket # "open"
               THEN /\ task' = [task EXCEPT ![t] = [pc |-> "done", request |-> message,
                                                    raised |-> TRUE, value |-> None]]
                    /\ wire' = wire
               ELSE /\ task' = [task EXCEPT ![t] = [pc |-> "receiving", request |-> message,
                                                    raised |-> FALSE, value |-> None]]
                    /\ wire' = Append(wire, [for |-> t, data |-> EcuAnswer(message)])
            /\ UNCHANGED <<doipVars, enetVars, g01_manager, call>>

\* the recv handed to the executor returns: recv(4096) takes what is waiting
\* in the receive buffer, the oldest response first
TaskRecv(t) ==
    \E k \in 1..Len(wire) :
        /\ task[t].pc = "receiving"
        /\ eSocket = "open"
        /\ task' = [task EXCEPT ![t] = [pc |-> "done", request |-> task[t].request,
                                        raised |-> FALSE, value |-> SubSeq(wire, 1, k)]]
        /\ wire' = SubSeq(wire, k + 1, Len(wire))
        /\ UNCHANGED <<doipVars, enetVars, g01_manager, call>>

\* the recv raises: nothing arrives before the timeout, or the socket has
\* been closed; send_uds_request logs and re-raises
TaskRecvRaises(t) ==
    /\ task[t].pc = "receiving"
    /\ wire = <<>> \/ eSocket # "open"
    /\ task' = [task EXCEPT ![t] = [pc |-> "done", request |-> task[t].request,
                                    raised |-> TRUE, value |-> None]]
    /\ wire' = wire
    /\ UNCHANGED <<doipVars, enetVars, g01_manager, call>>

\* the caller has taken the result
TaskReturn(t) ==
    /\ task[t].pc = "done"
    /\ task' = [task EXCEPT ![t] = IdleTask]
    /\ UNCHANGED <<doipVars, enetVars, g01_manager, call, wire>>

NextTasks ==
    \/ \E t \in Tasks : TaskSend(t)
    \/ \E t \in Tasks : TaskRecv(t)
    \/ \E t \in Tasks : TaskRecvRaises(t)
    \/ \E t \in Tasks : TaskReturn(t)
    \/ CallEnetDisconnect
    \/ Return

SpecTasks == InitConnected /\ [][NextTasks]_vars


----------------------------------------------------------------------------
(* The life of the two connections: connect, requests, disconnect *)

\* a DoIPConnection just constructed, or one on which routing activation
\* has succeeded; the ENETConnection just constructed
InitSession == Init \/ InitActivated

NextSession ==
    \/ CallConnect
    \/ CallDisconnect
    \/ CallReadParameter
    \/ CallEnetConnect
    \/ CallEnetDisconnect
    \/ CallG01ReadParameter
    \/ CallG01WriteParameter
    \/ CallUnlockEcu
    \/ Return

SpecSession == InitSession /\ [][NextSession]_vars


----------------------------------------------------------------------------
(* Applying coded parameters: G01ECUManager.apply_coding and the          *)
(* /coding/apply handler of server.py.  A str is the sequence of its code  *)
(* points.                                                                  *)

\* str.encode(): UTF-8 of code points below 0x800
RECURSIVE Utf8Encode(_)
Utf8Encode(s) ==
    IF s = <<>> THEN <<>>
    ELSE (IF Head(s) < 128 THEN <<Head(s)>>
          ELSE <<192 + (Head(s) \div 64), 128 + (Head(s) % 64)>>) \o Utf8Encode(Tail(s))

\* str(n) for a natural number
RECURSIVE DecimalStr(_)
DecimalStr(n) == IF n < 10 THEN <<48 + n>> ELSE DecimalStr(n \div 10) \o <<48 + (n % 10)>>

\* str.isdigit() and int() for text of ASCII characters
IsDigit(s) == s # <<>> /\ \A i \in 1..Len(s) : s[i] \in 48..57

RECURSIVE IntOf(_)
IntOf(s) == IF s = <<>> THEN 0 ELSE IntOf(SubSeq(s, 1, Len(s) - 1)) * 10 + (s[Len(s)] - 48)

\* the texts not_active, aktiv, normal, dauerhaft
NotActive == <<110, 111, 116, 95, 97, 99, 116, 105, 118, 101>>
Aktiv == <<97, 107, 116, 105, 118>>
Normal == <<110, 111, 114, 109, 97, 108>>
Dauerhaft == <<100, 97, 117, 101, 114, 104, 97, 102, 116>>

G01_CODING_PARAMS ==
    [ SCR1_REMOTE_START |->
        [ecu |-> "BDC",
         parameters |-> << [name |-> "SCR_VERBAU", address |-> 12288,
                            options |-> <<NotActive, Aktiv>>],
                           [name |-> "SCR_ANZEIGE", address |-> 12289,
                            options |-> <<NotActive, Aktiv>>] >>],
      ANGEL_EYES_BRIGHTNESS |->
        [ecu |-> "FEM",
         parameters |-> << [name |-> "LICHT_HELLIGKEIT", address |-> 16384,
                            min |-> 0, max |-> 100] >>],
      EXHAUST_FLAPS |->
        [ecu |-> "DME",
         parameters |-> << [name |-> "KLAPPE_OFFEN", address |-> 20480,
                            options |-> <<Normal, Dauerhaft>>] >>],
      VIDEO_IN_MOTION |->
        [ecu |-> "HU",
         parameters |-> << [name |-> "VIDEO_FREIGABE", address |-> 24576,
                            options |-> <<NotActive, Aktiv>>] >>] ]

\* G01ECUManager.apply_coding: the value written for a parameter, the
\* second option or the maximum
CodingValue(param) ==
    IF "options" \in DOMAIN param THEN Utf8Encode(param.options[2])
    ELSE Utf8Encode(DecimalStr(param.max))

\* G01ECUManager.apply_coding: the loop over the parameters, xs answering
\* the writes in order
RECURSIVE G01ApplyParameters(_, _, _, _)
G01ApplyParameters(connected, params, xs, exch) ==
    IF params = <<>> THEN [value |-> Bool(TRUE), exch |-> exch]
    ELSE LET w == G01WriteParameter(connected, Head(params).address,
                                    CodingValue(Head(params)), Head(xs))
         IN  IF ~w.value.v THEN [value |-> Bool(FALSE), exch |-> exch \o w.exch]
             ELSE G01ApplyParameters(connected, Tail(params), Tail(xs), exch \o w.exch)

\* G01ECUManager.apply_coding
G01ApplyCoding(connected, modification, x1, x2, x3, xs) ==
    IF modification \notin DOMAIN G01_CODING_PARAMS
    THEN [value |-> Bool(FALSE), exch |-> <<>>]
    ELSE LET u == UnlockEcu(connected, 3, x1, x2, x3)
         IN  IF ~u.value.v THEN [value |-> Bool(FALSE), exch |-> u.exch]
             ELSE G01ApplyParameters(connected, G01_CODING_PARAMS[modification].parameters,
                                     xs, u.exch)

\* server.py: an HTTPException with its detail
HttpErrorDetail(status_code, detail) ==
    [t |-> "HTTPException", status_code |-> status_code, detail |-> detail]

CodingApplied == [t |-> "dict", success |-> TRUE]

\* the handler's loop going on to the next parameter after a failed write
RECURSIVE ApplyCodingParametersAll(_, _, _, _, _)
ApplyCodingParametersAll(connected, parameters, xs, exch, db) ==
    IF parameters = <<>>
    THEN IF db = "ok" THEN [raised |-> FALSE, value |-> CodingApplied, exch |-> exch]
         ELSE [raised |-> TRUE, value |-> HttpErrorDetail(500, <<"db">>), exch |-> exch]
    ELSE LET param == Head(parameters)
         IN  IF param.newValue = None \/ param.newValue.v = <<>>
             THEN ApplyCodingParametersAll(connected, Tail(parameters), xs, exch, db)
             ELSE LET param_addr == IF IsDigit(param.id) THEN IntOf(param.id) ELSE 12288
                      w == G01WriteParameter(connected, param_addr,
                                             Utf8Encode(param.newValue.v), Head(xs))
                  IN  ApplyCodingParametersAll(connected, Tail(parameters), Tail(xs),
                                               exch \o w.exch, db)

\* apply_coding of server.py: the loop over request.parameters; a
\* parameter whose newValue is None or empty is passed over and uses no
\* answer of xs
RECURSIVE ApplyCodingParameters(_, _, _, _, _)
ApplyCodingParameters(connected, parameters, xs, exch, db) ==
    IF parameters = <<>>
    THEN IF db = "ok" THEN [raised |-> FALSE, value |-> CodingApplied, exch |-> exch]
         ELSE [raised |-> TRUE, value |-> HttpErrorDetail(500, <<"db">>), exch |-> exch]
    ELSE LET param == Head(parameters)
         IN  IF param.newValue = None \/ param.newValue.v = <<>>
             THEN ApplyCodingParameters(connected, Tail(parameters), xs, exch, db)
             ELSE LET param_addr == IF IsDigit(param.id) THEN IntOf(param.id) ELSE 12288
                      w == G01WriteParameter(connected, param_addr,
                                             Utf8Encode(param.newValue.v), Head(xs))
                  IN  IF ~w.value.v
                      THEN [raised |-> TRUE,
                            value |-> HttpErrorDetail(500, <<"Failed to write", param.name>>),
                            exch |-> exch \o w.exch]
                      ELSE ApplyCodingParameters(connected, Tail(parameters), Tail(xs),
                                                 exch \o w.exch, db)

\* apply_coding of server.py; db is whether the insert of the transaction
\* record succeeds
ApplyCoding(manager, connected, parameters, x1, x2, x3, xs, db) ==
    IF ~manager
    THEN [raised |-> TRUE, exch |-> <<>>,
          value |-> HttpErrorDetail(400, <<"Not connected to G01 X3 B48">>)]
    ELSE LET u == UnlockEcu(connected, 3, x1, x2, x3)
         IN  IF ~u.value.v
             THEN [raised |-> TRUE, exch |-> u.exch,
                   value |-> HttpErrorDetail(500, <<"Failed to unlock ECU">>)]
             ELSE ApplyCodingParameters(connected, parameters, xs, u.exch, db)

\* most parameters in one request to the handler
MaxParams == 2

\* the modifications asked of G01ECUManager.apply_coding
Modifications == DOMAIN G01_CODING_PARAMS \cup {"UNKNOWN"}

\* the parameters of a request: id 12288 in digits, an id that is not a
\* number, an id above 16 bits; a newValue of a, of e acute, empty, None
RequestParameters ==
    { [id |-> <<49, 50, 50, 56, 56>>, name |-> "P1", newValue |-> Str(<<97>>)],
      [id |-> <<120>>, name |-> "P2", newValue |-> Str(<<233>>)],
      [id |-> <<55, 48, 48, 48, 48>>, name |-> "P4", newValue |-> Str(<<97>>)],
      [id |-> <<49, 50, 50, 56, 56>>, name |-> "P5", newValue |-> Str(<<>>)],
      [id |-> <<49, 50, 50, 56, 56>>, name |-> "P6", newValue |-> None] }

RequestLists == UNION {[1..n -> RequestParameters] : n \in 0..MaxParams}

\* what the ECU answers to the session, seed, key and write requests
SessionAnswers == {Answer(<<80, 3>>), Answer(<<127, 16, 34>>), Timeout}
SeedAnswers == {Answer(<<103, 5, 18, 52, 86, 120>>), Answer(<<127, 39, 53>>)}
KeyAnswers == {Answer(<<103, 6>>), SendError}
WriteAnswers == {Answer(<<110, 48, 0>>), Answer(<<127, 46, 49>>), Timeout}

CallG01ApplyCoding ==
    /\ call = Idle
    /\ \E modification \in Modifications, x1 \in SessionAnswers, x2 \in SeedAnswers,
       x3 \in KeyAnswers, xs \in [1..2 -> WriteAnswers] :
        G01Call("g01.apply_coding", [modification |-> modification],
                G01ApplyCoding(eConnected, modification, x1, x2, x3, xs))

CallApplyCoding ==
    /\ call = Idle
    /\ \E parameters \in RequestLists, x1 \in SessionAnswers, x2 \in SeedAnswers,
       x3 \in KeyAnswers, xs \in [1..MaxParams -> WriteAnswers], db \in {"ok", "error"} :
        LET r == ApplyCoding(g01_manager, eConnected, parameters, x1, x2, x3, xs, db)
        IN  /\ call = Idle
            /\ call' = [op |-> "apply_coding", args |-> [parameters |-> parameters],
                        db |-> db, exch |-> r.exch, raised |-> r.raised, value |-> r.value]
            /\ UNCHANGED <<doipVars, enetVars, taskVars, g01_manager>>

\* the manager and the handler on the connection made by connect_to_vehicle
NextCoding ==
    \/ CallConnectToVehicle
    \/ CallUnlockEcu
    \/ CallG01ApplyCoding
    \/ CallApplyCoding
    \/ Return

SpecCoding == Init /\ [][NextCoding]_vars


----------------------------------------------------------------------------
(* The seed request on connections that are up *)

\* responses to a seed request: a 4-byte seed, a seed cut to 3 bytes, the
\* first byte alone, a negative response
SeedResponses ==
    { <<103, 5, 18, 52, 86, 120>>, <<103, 5, 18, 52, 86>>, <<103>>, <<127, 39, 53>> }

SeedReplies == {DiagReply(32769, 4 + Len(uds), uds, 12 + Len(uds)) : uds \in SeedResponses}

\* the seed request of DoIPConnection answered with seed responses
CallRequestSeedAnswered ==
    /\ call = Idle
    /\ \E ecu \in Targets, level \in Levels, x \in Exchanges(SeedReplies) :
        DoipCall("request_seed", [ecu |-> ecu, level |-> level],
                 RequestSeed(dConnected, ecu, level, x))

NextSeed ==
    \/ CallRequestSeedAnswered
    \/ CallDisconnect
    \/ CallEnetConnect
    \/ CallUnlockEcu
    \/ Return

SpecSeed == InitActivated /\ [][NextSeed]_vars


----------------------------------------------------------------------------
(* The read offset of CAFDParser._parse_cafd_binary *)

\* ParseCafdIterations without the check that the declared bytes are there
RECURSIVE ParseCafdIterationsUnchecked(_, _)
ParseCafdIterationsUnchecked(data, offset) ==
    IF ~(offset < Len(data) - 4) THEN <<>>
    ELSE LET param_len == UnpackH(Slice(data, offset + 2, offset + 4))
         IN  <<[offset |-> offset, next |-> offset + 4 + param_len, emitted |-> TRUE]>>
             \o ParseCafdIterationsUnchecked(data, offset + 4 + param_len)

\* the iterations of the while loop started at offset, in order: the offset
\* at the start of the iteration, the offset at its end, and whether it
\* stored a record; the iteration that breaks is the last
RECURSIVE ParseCafdIterations(_, _)
ParseCafdIterations(data, offset) ==
    IF ~(offset < Len(data) - 4) THEN <<>>
    ELSE LET param_len == UnpackH(Slice(data, offset + 2, offset + 4))
         IN  IF offset + 4 + param_len > Len(data)
             THEN <<[offset |-> offset, next |-> offset + 4, emitted |-> FALSE]>>
             ELSE <<[offset |-> offset, next |-> offset + 4 + param_len, emitted |-> TRUE]>>
                  \o ParseCafdIterations(data, offset + 4 + param_len)


----------------------------------------------------------------------------
(* server.py: the /dme/write handler, and the handlers that log a          *)
(* transaction                                                              *)

\* str.lower() for text of ASCII characters
Lower(s) == [i \in 1..Len(s) |-> IF s[i] \in 65..90 THEN s[i] + 32 ELSE s[i]]

\* the texts exhaust_flaps, launch_control, rev_limiter, boost_pressure
ExhaustFlaps == <<101, 120, 104, 97, 117, 115, 116, 95, 102, 108, 97, 112, 115>>
LaunchControl == <<108, 97, 117, 110, 99, 104, 95, 99, 111, 110, 116, 114, 111, 108>>
RevLimiter == <<114, 101, 118, 95, 108, 105, 109, 105, 116, 101, 114>>
BoostPressure == <<98, 111, 111, 115, 116, 95, 112, 114, 101, 115, 115, 117, 114, 101>>

\* write_dme: param_map.get(key), None for a key that is not there
ParamMapGet(key) ==
    CASE key = ExhaustFlaps -> 20480
      [] key = LaunchControl -> 20481
      [] key = RevLimiter -> 20482
      [] key = BoostPressure -> 20483
      [] OTHER -> 0

DmeWritten == [t |-> "dict", success |-> TRUE]

\* write_dme; xw answers the write, db is whether the insert of the
\* transaction record succeeds
WriteDme(manager, connected, parameter, value, x1, x2, x3, xw, db) ==
    IF ~manager
    THEN [raised |-> TRUE, exch |-> <<>>,
          value |-> HttpErrorDetail(400, <<"Not connected to G01 X3">>)]
    ELSE LET u == UnlockEcu(connected, 3, x1, x2, x3)
             did == ParamMapGet(Lower(parameter))
         IN  IF ~u.value.v
             THEN [raised |-> TRUE, exch |-> u.exch,
                   value |-> HttpErrorDetail(500, <<"Failed to unlock DME">>)]
             ELSE IF did = 0
             THEN [raised |-> TRUE, exch |-> u.exch,
                   value |-> HttpErrorDetail(400, <<"Unknown parameter", parameter>>)]
             ELSE LET w == G01WriteParameter(connected, did, Utf8Encode(value), xw)
                  IN  IF ~w.value.v
                      THEN [raised |-> TRUE, exch |-> u.exch \o w.exch,
                            value |-> HttpErrorDetail(500, <<"Failed to write DME parameter">>)]
                      ELSE IF db # "ok"
                      THEN [raised |-> TRUE, exch |-> u.exch \o w.exch,
                            value |-> HttpErrorDetail(500, <<"db">>)]
                      ELSE [raised |-> FALSE, exch |-> u.exch \o w.exch,
                            value |-> DmeWritten]

\* the parameter names asked of write_dme: exhaust_flaps, Rev_Limiter, x
DmeParameters == {ExhaustFlaps, <<82, 101, 118, 95, 76>> \o SubSeq(RevLimiter, 6, 11), <<120>>}

CallWriteDme ==
    /\ call = Idle
    /\ \E parameter \in DmeParameters, value \in {<<>>, <<49>>}, x1 \in SessionAnswers,
          x2 \in SeedAnswers, x3 \in KeyAnswers, xw \in WriteAnswers, db \in {"ok", "error"} :
        LET r == WriteDme(g01_manager, eConnected, parameter, value, x1, x2, x3, xw, db)
        IN  /\ call' = [op |-> "write_dme", args |-> [parameter |-> parameter, value |-> value],
                        db |-> db, exch |-> r.exch, raised |-> r.raised, value |-> r.value]
            /\ UNCHANGED <<doipVars, enetVars, taskVars, g01_manager>>

\* the handlers that log a transaction, on the connection made by
\* connect_to_vehicle
NextServer ==
    \/ CallConnectToVehicle
    \/ CallApplyCoding
    \/ CallApplyFlash
    \/ CallWriteDme
    \/ Return

SpecServer == Init /\ [][NextServer]_vars


----------------------------------------------------------------------------
(* ENETConnection.send_uds_request called by one caller, one call after     *)
(* the other, with replies that may arrive after the recv has timed out.    *)
(* wire is the receive buffer of the socket: what has arrived and has not   *)
(* been read.                                                               *)

RECURSIVE Concat(_)
Concat(ss) == IF ss = <<>> THEN <<>> ELSE Head(ss) \o Concat(Tail(ss))

\* send_uds_request on a socket whose receive buffer holds buffer.  The
\* ECU's reply arrives before the recv returns ("in time"), after it
\* ("late") or never ("lost").  recv(4096) returns the bytes of the k oldest
\* replies waiting, and raises (timeout) when none is waiting
SendUdsRequestBuffered(connected, service_id, data, buffer, arrival, k) ==
    IF ~connected \/ ~StructPack(<<"B">>, <<service_id>>).ok
    THEN [raised |-> TRUE, value |-> None, exch |-> <<>>, buffer |-> buffer]
    ELSE LET message == StructPack(<<"B">>, <<service_id>>).bytes \o data
             reply == [for |-> 1, data |-> EcuAnswer(message)]
             waiting == IF arrival = "in time" THEN Append(buffer, reply) ELSE buffer
             n == IF k < Len(waiting) THEN k ELSE Len(waiting)
             read == Concat([i \in 1..n |-> waiting[i].data])
             left == SubSeq(waiting, n + 1, Len(waiting))
         IN  [raised |-> waiting = <<>>,
              value |-> IF waiting = <<>> THEN None ELSE Bytes(read),
              exch |-> <<Exchange(message, IF waiting = <<>> THEN Timeout ELSE Answer(read))>>,
              buffer |-> IF arrival = "late" THEN Append(left, reply) ELSE left]

\* the requests of the caller: two reads, a write, a session request
SequentialRequests == {<<34, 241, 144>>, <<34, 48, 0>>, <<46, 48, 0, 97>>, <<16, 3>>}

CallSendUdsRequest ==
    /\ call = Idle
    /\ \E message \in SequentialRequests, arrival \in {"in time", "late", "lost"},
          k \in 1..2 :
        LET r == SendUdsRequestBuffered(eConnected, message[1], SliceFrom(message, 1),
                                        wire, arrival, k)
        IN  /\ call' = [op |-> "enet.send_uds_request", req |-> message,
                        arrival |-> arrival, exch |-> r.exch, raised |-> r.raised,
                        value |-> r.value]
            /\ wire' = r.buffer
            /\ UNCHANGED <<doipVars, enetVars, task, g01_manager>>

NextSequential ==
    \/ CallSendUdsRequest
    \/ CallEnetDisconnect
    \/ Return

SpecSequential == InitConnected /\ [][NextSequential]_vars


----------------------------------------------------------------------------
(* Claims *)

\* the exchanges of the last call that were answered, and their answers
Answered(e) == e.send /\ e.recv.ok
Reply(e) == e.recv.bytes

\* a value that reports failure to the caller
Failed(v) == v = None \/ v = Bool(FALSE)

\* a UDS negative response
Negative(b) == b # <<>> /\ b[1] = 127

DiagOps == {"send_diagnostic_request", "read_vin", "request_seed", "send_key",
            "read_parameter", "write_parameter"}

\* C1: a diagnostic call made while routing activation has not succeeded on
\* the socket of the session hands nothing to the socket, raises nothing and
\* returns failure
C1_RejectedBeforeActivation ==
    (call.op \in DiagOps /\ ~call.activated) =>
        (call.exch = <<>> /\ ~call.raised /\ Failed(call.value))

\* a diagnostic request rejected on a socket whose TCP connect succeeded
C1_Witness ==
    /\ call.op = "send_diagnostic_request"
    /\ dSocket = "open"
    /\ ~call.activated
    /\ call.req # <<>>
    /\ call.value = None

\* the condition of C2 on the bytes the gateway answers
RoutingActivationAccepted(b) ==
    Len(b) >= 14 /\ b[3] * 256 + b[4] = 6 /\ b[14] = 16

\* C2: connect returns True and leaves connected set exactly when the TCP
\* connect succeeds and the gateway's answer to the routing-activation
\* request has payload type 0x0006, at least 14 bytes and byte 13 = 0x10
C2_ConnectIffActivationAccepted ==
    call.op = "connect" =>
        ((call.value = Bool(TRUE) /\ dConnected) <=>
            (/\ call.tcp = "ok"
             /\ Answered(call.gateway)
             /\ RoutingActivationAccepted(Reply(call.gateway))))

\* C3: no operation reports success in a run in which it received a UDS
\* response whose first byte is 0x7F
C3_NegativeResponseNeverSuccess ==
    (\E i \in 1..Len(call.exch) :
        Answered(call.exch[i]) /\ Negative(Reply(call.exch[i])))
    => Failed(call.value)

\* the NRC a caller can read off a returned value: None and the data bytes
\* of a positive response name none
NrcOf(v) == IF v.t = "negative" THEN v.nrc ELSE -1

\* C4: read_parameter answered [0x7F, 0x22, nrc] reports a failure that
\* carries nrc
C4_NrcSurfaced ==
    (/\ call.op = "g01.read_parameter"
     /\ Len(call.exch) = 1
     /\ Answered(call.exch[1])
     /\ Len(Reply(call.exch[1])) = 3
     /\ Negative(Reply(call.exch[1]))
     /\ Reply(call.exch[1])[2] = 34)
    => NrcOf(call.value) = Reply(call.exch[1])[3]

\* security-access requests: odd subfunction = seed, even = key
IsSeedRequest(m) == Len(m) >= 2 /\ m[1] = 39 /\ m[2] % 2 = 1
IsKeyRequest(m) == Len(m) >= 2 /\ m[1] = 39 /\ m[2] % 2 = 0

\* the seed request of the run was answered with first byte 0x67
SeedRequestSucceeded(exch) ==
    \E i \in 1..Len(exch) :
        /\ IsSeedRequest(exch[i].req)
        /\ Answered(exch[i])
        /\ Reply(exch[i]) # <<>>
        /\ Reply(exch[i])[1] = 103

\* C5: a run of unlock_ecu whose seed request fails hands no key request to
\* the socket and returns False
C5_NoKeyAfterSeedFailure ==
    (call.op = "unlock_ecu" /\ ~SeedRequestSucceeded(call.exch)) =>
        /\ \A i \in 1..Len(call.exch) : ~IsKeyRequest(call.exch[i].req)
        /\ call.value = Bool(FALSE)

\* a run whose seed request was written and answered with a response that
\* is not a positive one
C5_Witness ==
    /\ call.op = "unlock_ecu"
    /\ call.args.level \in {3, 4}
    /\ Len(call.exch) = 2
    /\ IsSeedRequest(call.exch[2].req)
    /\ Answered(call.exch[2])
    /\ Len(Reply(call.exch[2])) >= 6
    /\ Reply(call.exch[2])[1] # 103
    /\ call.value = Bool(FALSE)

\* computeKey of the claim: the transform of the level
ComputeKey(level, seed) ==
    IF level = 3 THEN CalculateKeyLevel3(seed).bytes ELSE CalculateKeyLevel4(seed).bytes

\* a run Locked -> SeedRequested -> Unlocked: the seed request answered
\* 0x67, then the key request carrying computeKey of bytes 2..5 of that
\* answer, answered 0x67
UnlockedRun(level, exch) ==
    /\ level \in {3, 4}
    /\ Len(exch) = 3
    /\ exch[2].req = <<39, 2 * level - 1>>
    /\ Answered(exch[2])
    /\ Len(Reply(exch[2])) >= 6
    /\ Reply(exch[2])[1] = 103
    /\ exch[3].req = <<39, 2 * level>> \o ComputeKey(level, SubSeq(Reply(exch[2]), 3, 6))
    /\ Answered(exch[3])
    /\ Reply(exch[3]) # <<>>
    /\ Reply(exch[3])[1] = 103

\* a run of the flash endpoint that goes Locked -> SeedRequested ->
\* Unlocked: its seed request answered 0x67, its key request carrying a key
\* computed from bytes 2..5 of that answer, answered 0x67
FlashUnlockedRun(exch) ==
    /\ Len(exch) = 3
    /\ Answered(exch[2])
    /\ Len(Reply(exch[2])) >= 6
    /\ Reply(exch[2])[1] = 103
    /\ \E level \in {3, 4} :
           SubSeq(exch[3].req, Len(exch[3].req) - 3, Len(exch[3].req))
               = ComputeKey(level, SubSeq(Reply(exch[2]), 3, 6))
    /\ Answered(exch[3])
    /\ Reply(exch[3]) # <<>>
    /\ Reply(exch[3])[1] = 103

\* unlock_ecu returns True only in a run Locked -> SeedRequested -> Unlocked,
\* and False in every other
UnlockEcuFollowsStateMachine ==
    call.op = "unlock_ecu" =>
        /\ call.value \in {Bool(TRUE), Bool(FALSE)}
        /\ (call.value = Bool(TRUE) => UnlockedRun(call.args.level, call.exch))
        /\ (~UnlockedRun(call.args.level, call.exch) => call.value = Bool(FALSE))

\* C6: the ECU is reported unlocked only in a run Locked -> SeedRequested
\* -> Unlocked: unlock_ecu returns True only in such a run and False in
\* every other, and the flash endpoint, which runs the seed and key
\* requests itself, goes on to report the flash applied only in such a run
C6_UnlockedOnlyAfterSeedAndKey ==
    /\ UnlockEcuFollowsStateMachine
    /\ (call.op = "apply_flash" /\ call.value = FlashApplied) =>
            FlashUnlockedRun(call.exch)

\* C7: for every security level (1 and up) the security-access requests
\* are [0x27, 2*level-1] for the seed and [0x27, 2*level] followed by the
\* key, in DoIPConnection and in unlock_ecu
C7_SubfunctionsFromLevel ==
    /\ (call.op = "request_seed" /\ call.args.level >= 1 =>
            call.req = <<39, 2 * call.args.level - 1>>)
    /\ (call.op = "send_key" /\ call.args.level >= 1 =>
            call.req = <<39, 2 * call.args.level>> \o call.args.key)
    /\ (call.op = "unlock_ecu" =>
            /\ Len(call.exch) >= 2 => call.exch[2].req = <<39, 2 * call.args.level - 1>>
            /\ Len(call.exch) >= 3 =>
                   SubSeq(call.exch[3].req, 1, 2) = <<39, 2 * call.args.level>>)

DeclaredLength(b) == ((b[5] * 256 + b[6]) * 256 + b[7]) * 256 + b[8]

\* C9: received bytes whose payloadLength field differs from the number of
\* bytes after the 8-byte header are rejected by both response parsers
C9_LengthMismatchRejected ==
    (/\ call.op = "frame_parse"
     /\ Len(call.response) >= 8
     /\ DeclaredLength(call.response) # Len(call.response) - 8)
    => (call.parsed = None /\ ~call.activation)

\* a DoIP frame: version, inverse version, type, payloadLength, payload
Frame(ptype, payload) ==
    <<2, 253, ptype \div 256, ptype % 256, 0, 0, Len(payload) \div 256, Len(payload) % 256>>
    \o payload

\* C10: connect on a socket that takes the send writes the routing
\* activation request, a frame of type 0x0005 with the 7 payload bytes
\* source address, 0x00, four zero bytes; every diagnostic message written
\* is a frame of type 0x8001 with payload source, target, uds bytes
C10_WrittenFramesWellFormed ==
    /\ (call.op = "connect" /\ call.tcp = "ok" /\ call.gateway.send) =>
            Sent(call.exch) = <<Frame(5, <<14, 0, 0, 0, 0, 0, 0>>)>>
    /\ call.op \in DiagOps =>
            \A i \in 1..Len(Sent(call.exch)) :
                Sent(call.exch)[i] =
                    Frame(32769, <<14, 0, call.args.ecu \div 256, call.args.ecu % 256>>
                                 \o call.req)

\* the operations of G01ECUManager that take an ECU address
G01EcuOps == {"unlock_ecu", "g01.read_parameter", "g01.write_parameter"}

\* a type-0x8001 diagnostic message from the tester to ECU ecu
DiagnosticMessageTo(m, ecu) ==
    /\ Len(m) >= 12
    /\ SubSeq(m, 1, 4) = <<2, 253, 128, 1>>
    /\ DeclaredLength(m) = Len(m) - 8
    /\ SubSeq(m, 9, 12) = <<14, 0, ecu \div 256, ecu % 256>>

\* C11: every message an operation that takes an ECU address writes to the
\* socket is a type-0x8001 diagnostic message whose payload starts with the
\* tester address and that ECU address; the operations of G01ECUManager are
\* among them
C11_MessagesCarryEcuAddress ==
    call.op \in G01EcuOps \cup DiagOps =>
        \A i \in 1..Len(Sent(call.exch)) :
            DiagnosticMessageTo(Sent(call.exch)[i], call.args.ecu)

\* received bytes of at least 12 bytes and payload type 0x8001
Received12(b) == Len(b) >= 12 /\ b[3] = 128 /\ b[4] = 1

\* C12: send_diagnostic_request, once it has handed its message to the
\* socket, returns bytes 12 and up of the response exactly when the response
\* has at least 12 bytes and payload type 0x8001, returns None for every
\* other response and for a send or receive that fails, and raises nothing
C12_ResponseUnwrappedIffValid ==
    (call.op = "send_diagnostic_request" /\ Len(call.exch) = 1) =>
        /\ ~call.raised
        /\ IF Answered(call.exch[1]) /\ Received12(Reply(call.exch[1]))
           THEN call.value = Bytes(SubSeq(Reply(call.exch[1]), 13, Len(Reply(call.exch[1]))))
           ELSE call.value = None

\* a response of type 0x8001 unwrapped to its UDS bytes
C12_Witness ==
    /\ call.op = "send_diagnostic_request"
    /\ Len(call.exch) = 1
    /\ Answered(call.exch[1])
    /\ Received12(Reply(call.exch[1]))
    /\ call.value = Bytes(<<127, 34, 49>>)

\* the UDS response a call received in its one exchange: through the
\* diagnostic message for DoIPConnection, as read for ENETConnection;
\* <<>> when none was received
UdsReceived(op, e) ==
    IF ~Answered(e) THEN <<>>
    ELSE IF op \in DiagOps
         THEN IF Received12(Reply(e)) THEN SubSeq(Reply(e), 13, Len(Reply(e))) ELSE <<>>
         ELSE Reply(e)

\* the UDS request of the one exchange of a call
UdsRequested(op, c) == IF op \in DiagOps THEN c.req ELSE c.exch[1].req

\* C13: read_parameter of DoIPConnection and of G01ECUManager, for a 16-bit
\* DID, asks [0x22, did high, did low], returns the response without its
\* first 3 bytes when the response starts with 0x62, and None otherwise
C13_ReadParameter ==
    (call.op \in {"read_parameter", "g01.read_parameter"} /\ Len(call.exch) = 1) =>
        /\ UdsRequested(call.op, call)
               = <<34, call.args.did \div 256, call.args.did % 256>>
        /\ LET u == UdsReceived(call.op, call.exch[1])
           IN  IF u # <<>> /\ u[1] = 98
               THEN call.value = Bytes(SubSeq(u, 4, Len(u)))
               ELSE call.value = None

\* DID 0xF190 read through DoIPConnection and answered 62 F1 90 41
C13_Witness ==
    /\ call.op = "read_parameter"
    /\ call.args.did = 61840
    /\ call.req = <<34, 241, 144>>
    /\ Len(call.exch) = 1
    /\ UdsReceived(call.op, call.exch[1]) = <<98, 241, 144, 65>>
    /\ call.value = Bytes(<<65>>)

WriteOps == {"write_parameter", "g01.write_parameter", "enet.write_ecu_data"}

\* C14: write_parameter of DoIPConnection and of G01ECUManager and
\* write_ecu_data of ENETConnection ask [0x2E, did high, did low] followed by
\* the data, and report success exactly when a response was received and
\* starts with 0x6E; without a response they report failure
C14_WriteParameter ==
    call.op \in WriteOps =>
        /\ Len(call.exch) = 0 => ~Truthy(call.value)
        /\ Len(call.exch) = 1 =>
            /\ UdsRequested(call.op, call)
                   = <<46, call.args.did \div 256, call.args.did % 256>> \o call.args.data
            /\ Truthy(call.value) <=>
                   LET u == UdsReceived(call.op, call.exch[1])
                   IN  u # <<>> /\ u[1] = 110

\* a write through DoIPConnection answered 6E 30 00
C14_Witness ==
    /\ call.op = "write_parameter"
    /\ call.args.did = 12288
    /\ call.args.data = <<97>>
    /\ call.req = <<46, 48, 0, 97>>
    /\ Len(call.exch) = 1
    /\ UdsReceived(call.op, call.exch[1]) = <<110, 48, 0>>
    /\ call.value = Bool(TRUE)

\* ASCII whitespace
Blank(c) == c \in 9..13 \cup 28..32

\* v is field with its bytes above 0x7F dropped and the whitespace at both
\* ends trimmed
TrimmedAscii(v, field) ==
    LET a == SelectSeq(field, LAMBDA b : b <= 127)
    IN  \E i \in 1..Len(a) + 1, j \in 0..Len(a) :
            /\ v = SubSeq(a, i, j)
            /\ \A k \in 1..Len(a) : (k < i \/ k > j) => Blank(a[k])
            /\ v # <<>> => ~Blank(v[1]) /\ ~Blank(v[Len(v)])
            /\ v = <<>> => \A k \in 1..Len(a) : Blank(a[k])

\* C15: read_vin of DoIPConnection asks ECU 0x0012 for [0x22, 0xF1, 0x90];
\* it returns a string exactly when the UDS response has at least 20 bytes
\* and starts with 0x62, and the string is bytes 3..19 with the bytes that
\* are not ASCII dropped and the whitespace at both ends trimmed
C15_ReadVin ==
    (call.op = "read_vin" /\ Len(call.exch) = 1) =>
        /\ call.req = <<34, 241, 144>>
        /\ call.exch[1].req = Frame(32769, <<14, 0, 0, 18, 34, 241, 144>>)
        /\ LET u == UdsReceived(call.op, call.exch[1])
           IN  IF Len(u) >= 20 /\ u[1] = 98
               THEN /\ call.value.t = "str"
                    /\ TrimmedAscii(call.value.v, SubSeq(u, 4, 20))
               ELSE call.value = None

\* a response carrying WBA3A5C5XFP123456 returns that text
C15_Witness ==
    /\ call.op = "read_vin"
    /\ Len(call.exch) = 1
    /\ Len(UdsReceived(call.op, call.exch[1])) >= 20
    /\ SubSeq(UdsReceived(call.op, call.exch[1]), 1, 20)
           = <<98, 241, 144, 87, 66, 65, 51, 65, 53, 67, 53, 88, 70, 80, 49, 50, 51, 52, 53, 54>>
    /\ call.value = Str(<<87, 66, 65, 51, 65, 53, 67, 53, 88, 70, 80, 49, 50, 51, 52, 53, 54>>)

\* the VIN a call of the ENETConnection VIN read yields: the value of
\* read_vin, the vin of the ConnectionResponse of connect_to_vehicle
VinYielded(c) == IF c.op = "connect_to_vehicle" THEN c.value.vin ELSE c.value

\* C16: ENETConnection.read_vin, alone or from connect_to_vehicle, asks
\* [0x22, 0xF1, 0x90] and yields a VIN string only when the response starts
\* with 0x62 and has at least 20 bytes
C16_EnetReadVinChecked ==
    (/\ call.op \in {"enet.read_vin", "connect_to_vehicle"}
     /\ VinYielded(call).t = "str") =>
        /\ Len(call.exch) = 1
        /\ call.exch[1].req = <<34, 241, 144>>
        /\ Answered(call.exch[1])
        /\ Len(Reply(call.exch[1])) >= 20
        /\ Reply(call.exch[1])[1] = 98

\* the value of a hexadecimal digit 0-9, a-f
HexVal(c) == IF c <= 57 THEN c - 48 ELSE c - 87

\* the bytes the raw field of an entry spells
RawBytes(entry) ==
    [i \in 1..(Len(entry.raw.v) \div 2) |->
        16 * HexVal(entry.raw.v[2 * i - 1]) + HexVal(entry.raw.v[2 * i])]

\* item p of the result is the record of block b
RecordOf(p, b) ==
    /\ p.value.id = b.id
    /\ p.value.length = Len(b.data)
    /\ RawBytes(p.value) = b.data

\* the result holds exactly the records of blocks, in order
EmitsExactly(params, blocks) ==
    /\ Len(params) = Len(blocks)
    /\ \A i \in 1..Len(blocks) : RecordOf(params[i], blocks[i])

DistinctIds(blocks) ==
    \A i, j \in 1..Len(blocks) : blocks[i].id = blocks[j].id => i = j

\* a decode of a blob with a full header
Decoded == call.op = "_parse_cafd_binary" /\ Len(call.header) = HeaderLen

\* C17: a blob of a 32-byte header and n complete records with distinct
\* paramIds decodes to exactly those n records (paramId, length, raw bytes);
\* 32 zero bytes, 30 00 00 0A and not_active decode to the one record with
\* paramId 0x3000 and value not_active
C17_CompleteRecordsDecoded ==
    /\ (Decoded /\ call.tail = <<>> /\ DistinctIds(call.blocks)) =>
            EmitsExactly(call.params, call.blocks)
    /\ (Decoded /\ call.data = [i \in 1..32 |-> 0] \o <<48, 0, 0, 10>>
                                \o <<110, 111, 116, 95, 97, 99, 116, 105, 118, 101>>) =>
            /\ Len(call.params) = 1
            /\ call.params[1].value.id = 12288
            /\ call.params[1].value.value
                   = Str(<<110, 111, 116, 95, 97, 99, 116, 105, 118, 101>>)

\* C18: when what follows the complete records is a record that declares
\* more bytes than remain, the result is exactly the records before it
C18_TruncatedRecordKeepsPrior ==
    (Decoded /\ call.tail \in {<<48, 1, 0, 5>>, <<48, 1, 0, 5, 66>>}) =>
        EmitsExactly(call.params, call.blocks)

\* C19: a last record of paramLen 0, whose header ends at the end of the
\* buffer, is emitted with an empty value; fewer than 4 bytes after the last
\* record emit nothing more
C19_HeaderReadUpToEnd ==
    /\ (Decoded /\ call.tail = <<>> /\ call.blocks # <<>>
          /\ call.blocks[Len(call.blocks)].data = <<>>) =>
            \E i \in 1..Len(call.params) :
                /\ RecordOf(call.params[i], call.blocks[Len(call.blocks)])
                /\ call.params[i].value.value = Str(<<>>)
    /\ (Decoded /\ call.tail \in {<<48>>, <<48, 1, 0>>}) =>
            Len(call.params) <= Len(call.blocks)

\* C20: the number of records returned is the number of complete blocks in
\* the input, also when two blocks carry the same paramId; stated for the
\* inputs whose last complete block is not one of paramLen 0 at the very end
\* of the buffer (the case of C19)
C20_OneRecordPerBlock ==
    (/\ Decoded
     /\ call.blocks # <<>>
     /\ (call.tail # <<>> \/ call.blocks[Len(call.blocks)].data # <<>>)) =>
        Len(call.params) = Len(call.blocks)

\* s without the NUL characters at its end
RECURSIVE TrailingNulRemoved(_)
TrailingNulRemoved(s) ==
    IF s # <<>> /\ s[Len(s)] = 0 THEN TrailingNulRemoved(SubSeq(s, 1, Len(s) - 1)) ELSE s

\* C21: the value of every record is, for raw bytes that are ASCII (valid
\* UTF-8, one character per byte), those characters with only the trailing
\* NULs removed, and, for raw bytes that hold a byte no UTF-8 text can hold
\* (0xF5..0xFF), the lowercase hex string of the raw bytes
C21_ValueDecodedOrHex ==
    Decoded =>
        \A i \in 1..Len(call.params) :
            LET p == call.params[i].value
                raw == RawBytes(p)
            IN  /\ (\A k \in 1..Len(raw) : raw[k] <= 127) =>
                        p.value = Str(TrailingNulRemoved(raw))
                /\ (\E k \in 1..Len(raw) : raw[k] >= 245) =>
                        p.value = p.raw

\* the coroutines whose request has been written and whose response has
\* neither been received nor failed
InFlight == {t \in Tasks : task[t].pc = "receiving"}

\* C22: at most one request is in flight on a session at any time: while one
\* coroutine waits for its response no other has written a request, and the
\* response a coroutine receives is the response to its own request.
C22_OneRequestInFlight ==
    /\ Cardinality(InFlight) <= 1
    /\ \A t \in Tasks :
           task[t].pc = "done" /\ ~task[t].raised =>
               \A i \in 1..Len(task[t].value) : task[t].value[i].for = t


\* C23: disconnect is idempotent, for both connection classes: in whatever
\* state it is called it raises nothing and leaves the connection not
\* connected, and a second disconnect called on the state it left changes
\* nothing
C23_DisconnectIdempotent ==
    /\ call.op = "disconnect" =>
           /\ ~call.raised
           /\ dConnected = FALSE
           /\ dSocket \in {"None", "closed"}
           /\ Disconnect(dSocket, dConnected) = [socket |-> dSocket, connected |-> dConnected]
    /\ call.op = "enet.disconnect" =>
           /\ ~call.raised
           /\ eConnected = FALSE
           /\ eSocket \in {"None", "closed"}
           /\ EnetDisconnect(eSocket, eConnected) = [socket |-> eSocket, connected |-> eConnected]

\* a disconnect has closed the socket of a DoIPConnection that already was
\* disconnected or whose connect failed, the ENETConnection being closed too
C23_Witness == call.op = "disconnect" /\ dSocket = "closed" /\ eSocket = "closed"


\* the call met a transport error: a send or a recv that raised
TransportError(c) == \E i \in 1..Len(c.exch) : ~Answered(c.exch[i])

\* C24: a connect that fails, and a diagnostic request whose send or recv
\* raises, leave the connection not connected, for both connection classes
C24_ErrorsAreFatal ==
    /\ (call.op = "connect" /\ call.value = Bool(FALSE)) => ~dConnected
    /\ (call.op = "enet.connect" /\ call.value = Bool(FALSE)) => ~eConnected
    /\ (call.op \in DiagOps /\ TransportError(call)) => ~dConnected
    /\ (call.op \in G01EcuOps /\ TransportError(call)) => ~eConnected


ApplyOps == {"g01.apply_coding", "apply_coding"}

\* the exchange is a write request (service 0x2E)
IsWrite(e) == e.req[1] = 46

\* the write was refused: no response, or one that does not start with 0x6E
WriteFailed(e) == IsWrite(e) /\ ~(Answered(e) /\ Reply(e) # <<>> /\ Reply(e)[1] = 110)

\* the ECU accepted the key of the unlock: a key request (0x27, even
\* sub-function) answered with a response that starts with 0x67
KeyWasAccepted(exch) ==
    \E i \in 1..Len(exch) :
        /\ exch[i].req[1] = 39
        /\ exch[i].req[2] % 2 = 0
        /\ Answered(exch[i]) /\ Reply(exch[i]) # <<>> /\ Reply(exch[i])[1] = 103

\* the call reported failure to its caller
ReportedFailure(c) == IF c.op = "apply_coding" THEN c.raised ELSE c.value = Bool(FALSE)

\* C25: in G01ECUManager.apply_coding and in the /coding/apply handler a
\* write that fails is the last request of the call and the call reports
\* failure; when the unlock did not succeed the call sends no write request
\* and reports failure
C25_AbortOnFirstFailure ==
    call.op \in ApplyOps =>
        /\ \A i \in 1..Len(call.exch) :
               WriteFailed(call.exch[i]) => i = Len(call.exch) /\ ReportedFailure(call)
        /\ ~KeyWasAccepted(call.exch) =>
               /\ \A i \in 1..Len(call.exch) : ~IsWrite(call.exch[i])
               /\ ReportedFailure(call)

\* the handler was asked to write two parameters; the first write was
\* refused and no second write was sent
C25_Witness ==
    /\ call.op = "apply_coding"
    /\ Len(call.args.parameters) = 2
    /\ \A i \in 1..2 : call.args.parameters[i].name \in {"P1", "P2"}
    /\ Len(call.exch) = 4
    /\ WriteFailed(call.exch[4])
    /\ call.raised


\* the step at which a sequence of requests ended: the session request, the
\* seed request, the key request, or the write of the n-th parameter
FailedStep(exch) ==
    LET last == exch[Len(exch)]
        writes == Cardinality({i \in 1..Len(exch) : IsWrite(exch[i])})
    IN  IF last.req[1] = 16 THEN <<"session">>
        ELSE IF last.req[1] = 39 /\ last.req[2] % 2 = 1 THEN <<"seed">>
        ELSE IF last.req[1] = 39 THEN <<"key">>
        ELSE <<"write", writes>>

\* the step a result names, <<>> when it names none
StepNamed(v) == IF "step" \in DOMAIN v THEN v.step ELSE <<>>

\* C26: when unlock_ecu or G01ECUManager.apply_coding fails after having
\* sent a request, the result handed to the caller names the step that
\* failed: the seed request or the key send, the unlock or the parameter
\* whose write failed
C26_FailureNamesStep ==
    (call.op \in {"unlock_ecu", "g01.apply_coding"} /\ call.value = Bool(FALSE)
        /\ call.exch # <<>>) =>
        StepNamed(call.value) = FailedStep(call.exch)


\* the exchange is a seed request (0x27, odd sub-function) answered with a
\* response that starts with 0x67 and has fewer than 6 bytes
ShortSeed(e) ==
    /\ e.req[1] = 39 /\ e.req[2] % 2 = 1
    /\ Answered(e) /\ Reply(e) # <<>> /\ Reply(e)[1] = 103 /\ Len(Reply(e)) < 6

SeedRequests(exch) ==
    Cardinality({i \in 1..Len(exch) : exch[i].req[1] = 39 /\ exch[i].req[2] % 2 = 1})
KeyRequests(exch) ==
    Cardinality({i \in 1..Len(exch) : exch[i].req[1] = 39 /\ exch[i].req[2] % 2 = 0})

\* C28: nothing is retried.  One connect makes at most one exchange (the
\* routing-activation request and its response), one diagnostic call of
\* either connection class makes at most one exchange, and one unlock sends
\* at most one session request, one seed request and one key request,
\* whether or not they fail
C28_NoRetry ==
    /\ call.op = "connect" => Len(call.exch) <= 1
    /\ call.op \in DiagOps \cup {"g01.read_parameter", "g01.write_parameter"} =>
           Len(call.exch) <= 1
    /\ call.op = "unlock_ecu" =>
           /\ SeedRequests(call.exch) <= 1
           /\ KeyRequests(call.exch) <= 1
           /\ Len(call.exch) <= 3

\* an unlock whose seed request met a transport error: the seed request
\* was sent once, no key request was sent, and the unlock failed
C28_Witness ==
    /\ call.op = "unlock_ecu"
    /\ Len(call.exch) = 2
    /\ ~Answered(call.exch[2])
    /\ SeedRequests(call.exch) = 1
    /\ call.value = Bool(FALSE)


\* C29: an unlock changes no field of the manager or of its connection, and
\* nothing of any other connection: the step that makes an unlock_ecu call
\* leaves the socket and the connected flag of the ENETConnection, the
\* global manager, the DoIPConnection and the requests of the other
\* coroutines as they were, whether the unlock succeeds or fails
C29_UnlockIsTransient ==
    [][call'.op = "unlock_ecu" =>
          UNCHANGED <<eSocket, eConnected, g01_manager, dSocket, dConnected, dActivated,
                      task, wire>>]_vars

\* an unlock that succeeded on a connected ENETConnection, and one can
\* follow it: the state after it is the state before it
C29_Witness ==
    /\ call.op = "unlock_ecu"
    /\ call.value = Bool(TRUE)
    /\ eConnected /\ eSocket = "open"


C34_UnsupportedLevelSendsNothing ==
    (call.op = "unlock_ecu" /\ call.args.level \notin {3, 4}) =>
        call.value = Bool(FALSE) /\ call.exch = <<>>


\* C33: the decoder's loop ends on every input.  Its read offset starts at
\* 32, grows in every iteration, each iteration starts where the one before
\* ended, and an iteration that stores a record ends within the blob; there
\* are no more records than storing iterations, and a blob shorter than the
\* 32-byte header makes no iteration and yields no record
C33_DecoderTerminates ==
    call.op = "_parse_cafd_binary" =>
        LET it == ParseCafdIterations(call.data, HeaderLen)
        IN  /\ Len(it) <= Len(call.data)
            /\ \A i \in 1..Len(it) :
                   /\ it[i].next > it[i].offset
                   /\ it[i].offset = IF i = 1 THEN HeaderLen ELSE it[i - 1].next
                   /\ it[i].emitted => it[i].next <= Len(call.data)
                   /\ ~it[i].emitted => i = Len(it)
            /\ Len(call.params) <= Cardinality({i \in 1..Len(it) : it[i].emitted})
            /\ Len(call.data) < HeaderLen => it = <<>> /\ call.params = <<>>

\* a decode that stored a record of paramLen 0 and then met a record that
\* declares more bytes than remain
C33_Witness ==
    /\ Decoded
    /\ \E i \in 1..Len(call.blocks) : call.blocks[i].data = <<>>
    /\ call.tail = <<48, 1, 0, 5, 66>>
    /\ Len(ParseCafdIterations(call.data, HeaderLen)) = Len(call.blocks) + 1
    /\ call.params # <<>>


\* the handlers that insert a transaction with status success; the insert
\* is their last step before they return, so the transaction was appended
\* exactly when the handler returned without raising
LoggingOps == {"apply_coding", "apply_flash", "write_dme"}
SuccessLogged(c) == c.op \in LoggingOps /\ ~c.raised

\* the exchange received the positive response to its request
PositiveResponse(e) ==
    Answered(e) /\ Reply(e) # <<>> /\ Reply(e)[1] = e.req[1] + 64

\* C32: a handler appends its success transaction only when every request
\* it made to the ECU (session start, seed request, key send, parameter
\* writes) received a positive response
C32_SuccessOnlyAfterPositive ==
    SuccessLogged(call) => \A i \in 1..Len(call.exch) : PositiveResponse(call.exch[i])


\* C31: in a sequential run on one connection, what a diagnostic call
\* returns is the ECU's reply to the request of that call, also when the
\* reply to an earlier call arrived after that call had timed out
C31_OwnReplyReturned ==
    (call.op = "enet.send_uds_request" /\ ~call.raised) =>
        call.value = Bytes(EcuAnswer(call.req))


====
